---- MODULE Spec2Model ----
(***************************************************************************)
(* Group metadata cache, daily credential manager and active-call tracker  *)
(* of pkg/signalmeow/groups.go, as a state machine.                        *)
(*                                                                         *)
(* A Client is shared by goroutines (Procs).  Every exported method is cut *)
(* into steps at the places where it touches the Client's shared fields or *)
(* blocks on the network, so that two calls can interleave exactly where   *)
(* the Go code allows it.  Spec runs the calls one after the other,        *)
(* SpecConc lets the goroutines interleave.                                *)
(***************************************************************************)
EXTENDS Integers, Sequences, FiniteSets, TLC

\* ------------------------------------------------------------------ bounds
\* Clock resolution: ticks per hour (2 = half hours).
TicksPerHour == 2
\* Number of single ticks the clock may make around the first midnight.
MaxSmallTicks == 4
\* Number of whole-day steps the clock may make.
MaxDays == 8
\* Largest group revision the server reaches.
MaxRev == 1
\* Longest run of same-id UpdateActiveCalls results that is remembered.
MaxRun == 3
\* Longest member list of an encrypted group handed to decryptGroup.
MaxMembers == 2
\* Largest numeric role of a member of an encrypted group.
MaxRole == 3
\* Longest serialized master key handed to masterKeyToBytes, in characters.
MaxChars == 4
\* Most calls of Destroy that callers make on one wrapper.
MaxDestroy == 2

\* ------------------------------------------------------- program constants
\* time.Since(lastFetched) < 1*time.Hour
FreshHours == 1
\* time.Now().Truncate(24 * time.Hour)
HoursPerDay == 24
\* today.Add(7 * 24 * time.Hour)
WindowDays == 7

Hour == TicksPerHour
FreshnessWindow == FreshHours * Hour
Day == HoursPerDay * Hour
SevenDays == WindowDays * Day

\* The run starts one hour before the first midnight (UTC).
StartTime == Day - Hour

\* ------------------------------------------------------------- the domains
Procs == {"p1", "p2"}
SeqProcs == {"p1"}
Gids == {"g1", "g2"}
CallIds == {"c1", "c2"}
MasterKeys == {"k1", "k2"}
Revs == 0..MaxRev

\* groupIdentifierFromMasterKey: the identifier derived from a master key.
groupIdentifierFromMasterKey(k) == IF k = "k1" THEN "g1" ELSE "g2"

NoKey == ""
NoCallID == "<none>"
NoTime == -1
\* A *Group that is nil, or absent from a map.
NoGroup ==
    [GroupIdentifier |-> "", groupMasterKey |-> "", Title |-> <<>>, Description |-> <<>>,
     DisappearingMessagesDuration |-> 0, AvatarPath |-> "", Revision |-> -1, Members |-> <<>>]
NoCreds == [nil |-> TRUE, ACI |-> "", PNI |-> "", Credentials |-> {}]
NoReq == [start |-> -1, end |-> -1]

\* The Client's own account identifiers (cli.Store.ACI, cli.Store.PNI).
OwnACI == "aci-own"
OwnPNI == "pni-own"

VARIABLES
    now,               \* wall clock, in ticks since the epoch
    GroupCache,        \* cli.GroupCache: nil, or the three maps
    GroupCredentials,  \* cli.GroupCredentials: nil, or the cached bundle
    GroupStore,        \* cli.Store.GroupStore: gid -> serialized master key
    serverRev,         \* the server's current revision of each group
    proc,              \* per goroutine: the call in progress and its locals
    run,               \* per group: results of the current run of same-id UpdateActiveCalls
    lastMiss,          \* per group: time and revision of the last fetch stored by a call
    crashed,           \* the Go runtime aborted the program (concurrent map access)
    ProfileKeyStore,   \* cli.Store.ProfileKeyStore: the (user, profile key) pairs stored
    encryptedGroup,    \* decryptGroup: the *signalpb.Group argument
    decryptKey,        \* decryptGroup: the serialized master key argument
    decrypted,         \* decryptGroup: what the call returned
    codecIn,           \* the master-key codec: the argument of the call
    codecOut,          \* the master-key codec: what the call returned
    handle             \* libsignalgo: per wrapper, the Go object and its native handle

\* The arguments and results of the functions that are checked on their own.
pureVars == <<encryptedGroup, decryptKey, decrypted, codecIn, codecOut>>

vars == <<now, GroupCache, GroupCredentials, GroupStore, serverRev, proc, run, lastMiss, crashed,
          ProfileKeyStore, pureVars, handle>>

\* ------------------------------------------------------------------ types
\* type GroupCache struct { groups, lastFetched, activeCalls }
NilCache ==
    [nil |-> TRUE,
     groups |-> [g \in Gids |-> NoGroup],
     lastFetched |-> [g \in Gids |-> NoTime],
     activeCalls |-> [g \in Gids |-> NoCallID]]

\* &GroupCache{groups: make(...), lastFetched: make(...), activeCalls: make(...)}
EmptyCache == [NilCache EXCEPT !.nil = FALSE]

NoPre == [now |-> -1, cache |-> NilCache, creds |-> NoCreds]

IdleProc ==
    [kind |-> "idle", pc |-> "idle",
     gid |-> "", rev |-> 0, callID |-> NoCallID, key |-> NoKey,
     today |-> -1, req |-> NoReq, resp |-> NoCreds, served |-> -1,
     group |-> NoGroup, storedAt |-> -1,
     ok |-> FALSE, cached |-> FALSE, isActive |-> FALSE, auth |-> FALSE, err |-> "",
     nFetch |-> 0, nGroupReq |-> 0, nCredReq |-> 0,
     pre |-> NoPre]

Snapshot == [now |-> now, cache |-> GroupCache, creds |-> GroupCredentials]

\* time.Time.Truncate(d): round down to a multiple of d since the zero time.
Truncate(t, d) == (t \div d) * d

NotCalled == [err |-> "not called", group |-> NoGroup, attempted |-> {}]
NoCodecCall == [fn |-> "none", arg |-> <<>>]

\* The wrappers of native handles: *Fingerprint and *SenderCertificate values.
Fingerprints == {"f1", "f2"}
SenderCertificates == {"s1"}
Wrappers == Fingerprints \cup SenderCertificates

\* A wrapper that does not exist yet.  state is "none", "reachable",
\* "unreachable", "finalizing" (its finalizer is running) or "collected";
\* finalizer says whether the runtime holds a finalizer for it; inDestroy
\* counts the calls of Destroy that stand before the native destroy; released
\* counts the native destroys of its ptr; explicit, cancelled and finalized
\* tell what was called on it: Destroy by a caller, CancelFinalizer by
\* a caller, Destroy by the runtime.
NoHandle ==
    [state |-> "none", finalizer |-> FALSE, inDestroy |-> 0, released |-> 0,
     explicit |-> 0, cancelled |-> FALSE, finalized |-> 0]

\* The Client after construction.
InitClient ==
    /\ now = StartTime
    /\ GroupCache = NilCache
    /\ GroupCredentials = NoCreds
    /\ GroupStore = [g \in Gids |-> NoKey]
    /\ serverRev = [g \in Gids |-> 0]
    /\ proc = [p \in Procs |-> IdleProc]
    /\ run = [g \in Gids |-> [id |-> NoCallID, rets |-> <<>>, fromEmpty |-> FALSE]]
    /\ lastMiss = [g \in Gids |-> [at |-> NoTime, rev |-> -1]]
    /\ crashed = FALSE
    /\ ProfileKeyStore = {}
    /\ handle = [w \in Wrappers |-> NoHandle]

Init ==
    /\ InitClient
    /\ encryptedGroup = NoGroup /\ decryptKey = NoKey /\ decrypted = NotCalled
    /\ codecIn = NoCodecCall /\ codecOut = <<>>

\* ------------------------------------------------------- helper operators
Finish(rec, ok, err) == [rec EXCEPT !.pc = "done", !.ok = ok, !.err = err]

AllIdle == \A q \in Procs : proc[q].kind = "idle"
WaitingPcs == {"cred_wait", "group_wait"}
SomeWaiting == \E q \in Procs : proc[q].pc \in WaitingPcs

\* Mutant of IsFresh: an entry exactly one hour old still counts as fresh.
IsFreshInclusive(lastFetched, t) == lastFetched # NoTime /\ t - lastFetched <= FreshnessWindow

\* ok && time.Since(lastFetched) < 1*time.Hour
IsFresh(lastFetched, t) == lastFetched # NoTime /\ t - lastFetched < FreshnessWindow

\* ok && group.Revision >= revision
RevisionOK(group, revision) == group # NoGroup /\ group.Revision >= revision

\* Mutant of getCachedAuthorizationForToday: only the first credential of the
\* bundle is compared with today.
getCachedFirstOnly(creds, today) ==
    IF creds.nil THEN NoTime
    ELSE IF \E c \in creds.Credentials : c = today /\ \A d \in creds.Credentials : c <= d
         THEN today
    ELSE NoTime

\* The credential of the cached bundle whose RedemptionTime is today, as its
\* RedemptionTime; NoTime for nil.
getCachedAuthorizationForToday(creds, today) ==
    IF creds.nil THEN NoTime
    ELSE IF \E c \in creds.Credentials : c = today THEN today
    ELSE NoTime

\* Mutant of CredRequest: the window starts at the current day but ends a day early.
CredRequestShort(today) == [start |-> today, end |-> today + SevenDays - Day]

\* redemptionStartSeconds=today, redemptionEndSeconds=today+7 days
CredRequest(today) == [start |-> today, end |-> today + SevenDays]

\* The redemption days of the half-open window [start, end).
WindowOf(req) == {t \in req.start..(req.end - 1) : (t - req.start) % Day = 0}

\* What the credential endpoint may answer to a request: the bundle of the
\* requested window for this account, the same without the first day, and the
\* requested window issued for another account (other ACI, other PNI).
ServerBundles(req) ==
    { [nil |-> FALSE, ACI |-> OwnACI, PNI |-> OwnPNI, Credentials |-> WindowOf(req)],
      [nil |-> FALSE, ACI |-> OwnACI, PNI |-> OwnPNI, Credentials |-> WindowOf(req) \ {req.start}],
      [nil |-> FALSE, ACI |-> "aci-other", PNI |-> OwnPNI, Credentials |-> WindowOf(req)],
      [nil |-> FALSE, ACI |-> OwnACI, PNI |-> "pni-other", Credentials |-> WindowOf(req)] }

\* Errors of fetchNewGroupCreds before the bundle is parsed.
CredFetchErrors == {"creds_transport", "creds_status", "creds_json"}
\* Errors of fetchGroupByID between the group request and decryptGroup.
GroupFetchErrors == {"group_transport", "group_status", "group_read", "group_unmarshal"}

\* GetAuthorizationForToday from the credential of today on: the credential is
\* received for the Client's own ACI and PNI and presented for the group.  The
\* library may reject the credential; it rejects one issued for another ACI.
\* A GroupAuth goes back to the caller: fetchGroupByID sends GET /v1/groups
\* with it, a direct caller gets it returned.
AuthOutcomes(rec, creds) ==
    {Finish(rec, FALSE, "auth_crypto")} \cup
    (IF creds.ACI # OwnACI THEN {}
     ELSE IF rec.kind = "auth" THEN {[Finish(rec, TRUE, "") EXCEPT !.auth = TRUE]}
     ELSE {[rec EXCEPT !.pc = "group_wait", !.auth = TRUE,
                       !.nGroupReq = rec.nGroupReq + 1,
                       !.served = serverRev[groupIdentifierFromMasterKey(rec.key)]]})

\* Mutant of PNIMatches: the bundle's PNI is not compared.
PNIUnchecked(creds) == TRUE

\* fetchNewGroupCreds: creds.PNI != cli.Store.PNI is an error.  The PNI is the
\* only account identifier of the bundle that is compared.
PNIMatches(creds) == creds.PNI = OwnPNI

\* GetAuthorizationForToday after cli.GroupCredentials = creds: the second
\* lookup, and "couldn't get credential for today" when it finds nothing.
AfterFetchNoCheck(rec, creds) == AuthOutcomes(rec, creds)

AfterFetch(rec, creds) ==
    IF getCachedAuthorizationForToday(creds, rec.today) = NoTime
    THEN {Finish(rec, FALSE, "creds_no_today")}
    ELSE AuthOutcomes(rec, creds)

\* ------------------------------------------------------------ decryptGroup
\* Byte strings are tuples.  A ciphertext sealed under a master key carries the
\* key and its plaintext; Junk is a non-empty byte string no key opens.
EmptyBytes == <<>>
Junk == <<"junk">>
Seal(k, plain) == <<"sealed", k, plain>>

\* Plaintexts: a serialized signalpb.GroupAttributeBlob with its one content
\* field, or bytes that are not a protobuf message.
Blob(kind, value) == <<"blob", kind, value>>
Malformed == <<"malformed">>
NilBlob == Blob("none", <<>>)

\* Text is a tuple of characters: a letter, a space (graphic white space) and
\* a line feed (a control character).
Chars == {"a", "SP", "LF"}
IsGraphic(c) == c # "LF"
IsSpace(c) == c \in {"SP", "LF"}

RECURSIVE TrimLeft(_)
TrimLeft(s) == IF s # <<>> /\ IsSpace(Head(s)) THEN TrimLeft(Tail(s)) ELSE s

RECURSIVE TrimRight(_)
TrimRight(s) ==
    IF s # <<>> /\ IsSpace(s[Len(s)]) THEN TrimRight(SubSeq(s, 1, Len(s) - 1)) ELSE s

\* strings.TrimSpace
TrimSpace(s) == TrimRight(TrimLeft(s))

\* strings.Map(cleanupStringMapping, property), then strings.TrimSpace
cleanupStringProperty(property) == TrimSpace(SelectSeq(property, IsGraphic))

\* DeriveGroupSecretParamsFromMasterKey(masterKeyToBytes(groupMasterKey))
DeriveGroupSecretParamsFromMasterKey(k) == [master |-> k]

\* groupSecretParams.DecryptBlobWithPadding: opens what was sealed under the
\* same master key, and nothing else.
DecryptBlobWithPadding(params, bytes) ==
    IF Len(bytes) = 3 /\ bytes[1] = "sealed" /\ bytes[2] = params.master
    THEN [err |-> "", plain |-> bytes[3]]
    ELSE [err |-> "decrypt", plain |-> EmptyBytes]

\* decryptGroupPropertyIntoBlob: decrypt, then proto.Unmarshal.
decryptGroupPropertyIntoBlob(params, encryptedProperty) ==
    LET d == DecryptBlobWithPadding(params, encryptedProperty) IN
    IF d.err # "" THEN [err |-> "error decrypting blob with padding", blob |-> NilBlob]
    ELSE IF d.plain[1] # "blob" THEN [err |-> "error unmarshalling blob", blob |-> NilBlob]
    ELSE [err |-> "", blob |-> d.plain]

\* The getters of GroupAttributeBlob: the zero value unless the content is of
\* the asked kind.
GetTitle(blob) == IF blob[2] = "title" THEN blob[3] ELSE <<>>
GetDescription(blob) == IF blob[2] = "description" THEN blob[3] ELSE <<>>
GetDisappearingMessagesDuration(blob) == IF blob[2] = "timer" THEN blob[3] ELSE 0

\* A member of the encrypted record: nil, or ciphertexts of the user id and
\* of the profile key, the numeric role and the revision of joining.
NilMember == [nil |-> TRUE, UserId |-> Junk, ProfileKey |-> Junk, Role |-> 0, JoinedAtRevision |-> 0]
SealUUID(k, user) == <<"uuid", k, user>>
SealProfileKey(k, user, key) == <<"profilekey", k, user, key>>
NoUser == ""

\* groupSecretParams.DecryptUUID
DecryptUUID(params, ciphertext) ==
    IF Len(ciphertext) = 3 /\ ciphertext[1] = "uuid" /\ ciphertext[2] = params.master
    THEN [err |-> "", userID |-> ciphertext[3]]
    ELSE [err |-> "DecryptUUID", userID |-> NoUser]

\* groupSecretParams.DecryptProfileKey(ciphertext, userID): the ciphertext is
\* bound to the user it was sealed for.
DecryptProfileKey(params, ciphertext, userID) ==
    IF /\ Len(ciphertext) = 4 /\ ciphertext[1] = "profilekey"
       /\ ciphertext[2] = params.master /\ ciphertext[3] = userID
    THEN [err |-> "", profileKey |-> ciphertext[4]]
    ELSE [err |-> "DecryptProfileKey", profileKey |-> ""]

\* GroupMemberRole(member.Role): the conversion of the protobuf enum keeps
\* the number.
GroupMemberRole(role) == role

\* Mutant of decryptMembers: a member that fails to decrypt is left out.
RECURSIVE decryptMembersSkipping(_, _, _)
decryptMembersSkipping(params, members, acc) ==
    IF members = <<>> THEN [err |-> "", Members |-> acc]
    ELSE LET member == Head(members)
             u == DecryptUUID(params, member.UserId)
             k == DecryptProfileKey(params, member.ProfileKey, u.userID) IN
         IF member.nil \/ u.err # "" \/ k.err # ""
         THEN decryptMembersSkipping(params, Tail(members), acc)
         ELSE decryptMembersSkipping(params, Tail(members),
                  Append(acc, [UserID |-> u.userID, ProfileKey |-> k.profileKey,
                               Role |-> GroupMemberRole(member.Role),
                               JoinedAtRevision |-> member.JoinedAtRevision]))

\* decryptGroup, the loop over encryptedGroup.Members: nil entries are
\* skipped, the first failure ends the whole call.
RECURSIVE decryptMembers(_, _, _)
decryptMembers(params, members, acc) ==
    IF members = <<>> THEN [err |-> "", Members |-> acc]
    ELSE LET member == Head(members) IN
         IF member.nil THEN decryptMembers(params, Tail(members), acc)
         ELSE LET u == DecryptUUID(params, member.UserId) IN
              IF u.err # "" THEN [err |-> u.err, Members |-> <<>>]
              ELSE LET k == DecryptProfileKey(params, member.ProfileKey, u.userID) IN
                   IF k.err # "" THEN [err |-> k.err, Members |-> <<>>]
                   ELSE decryptMembers(params, Tail(members),
                            Append(acc, [UserID |-> u.userID, ProfileKey |-> k.profileKey,
                                         Role |-> GroupMemberRole(member.Role),
                                         JoinedAtRevision |-> member.JoinedAtRevision]))

\* return nil, err
DecryptFailed(err, attempted) == [err |-> err, group |-> NoGroup, attempted |-> attempted]

\* Mutant of TimerPresent: the timer is decrypted whether or not the field
\* is empty.
TimerAlways(timer) == TRUE

\* encryptedGroup.DisappearingMessagesTimer != nil && len(...) > 0
TimerPresent(timer) == Len(timer) > 0

\* Mutant of DescriptionOf: a description that fails to decrypt is an error,
\* as for the title.
DescriptionStrict(d) == [err |-> d.err, text |-> cleanupStringProperty(GetDescription(d.blob))]

\* if err == nil { decryptedGroup.Description = cleanupStringProperty(...) }:
\* a failure in obtaining the description is not an error.
DescriptionOf(d) ==
    [err |-> "",
     text |-> IF d.err = "" THEN cleanupStringProperty(GetDescription(d.blob)) ELSE <<>>]

\* decryptGroup.  attempted names the properties that were handed to
\* decryptGroupPropertyIntoBlob.
decryptGroup(enc, key) ==
    LET params == DeriveGroupSecretParamsFromMasterKey(key)
        gid == groupIdentifierFromMasterKey(key)
        t == decryptGroupPropertyIntoBlob(params, enc.Title)
        d == DescriptionOf(decryptGroupPropertyIntoBlob(params, enc.Description))
        hasTimer == TimerPresent(enc.DisappearingMessagesTimer)
        tm == decryptGroupPropertyIntoBlob(params, enc.DisappearingMessagesTimer)
        m == decryptMembers(params, enc.Members, <<>>)
        tried == {"title", "description"} \cup (IF hasTimer THEN {"timer"} ELSE {})
    IN
    IF t.err # "" THEN DecryptFailed(t.err, {"title"})
    ELSE IF d.err # "" THEN DecryptFailed(d.err, {"title", "description"})
    ELSE IF hasTimer /\ tm.err # "" THEN DecryptFailed(tm.err, tried)
    ELSE IF m.err # "" THEN DecryptFailed(m.err, tried)
    ELSE [err |-> "",
          group |-> [GroupIdentifier |-> gid, groupMasterKey |-> key,
                     Title |-> cleanupStringProperty(GetTitle(t.blob)),
                     Description |-> d.text,
                     DisappearingMessagesDuration |->
                         IF hasTimer THEN GetDisappearingMessagesDuration(tm.blob) ELSE 0,
                     AvatarPath |-> enc.Avatar, Revision |-> enc.Revision,
                     Members |-> m.Members],
          attempted |-> tried]

\* What the group endpoint holds for the group of a master key: the title,
\* the description and the members sealed under that key, at the revision
\* served.  The first member administers the group.
ProfileKeyOf(user) == IF user = "u1" THEN "pk1" ELSE "pk2"
ServerMember(k, user, role) ==
    [nil |-> FALSE, UserId |-> SealUUID(k, user),
     ProfileKey |-> SealProfileKey(k, user, ProfileKeyOf(user)),
     Role |-> role, JoinedAtRevision |-> 0]
ServerGroup(k, rev) ==
    [Title |-> Seal(k, Blob("title", <<"a">>)),
     Description |-> Seal(k, Blob("description", <<"a">>)),
     DisappearingMessagesTimer |-> EmptyBytes,
     Avatar |-> "avatar", Revision |-> rev,
     Members |-> IF k = "k1" THEN <<ServerMember(k, "u1", 2), ServerMember(k, "u2", 1)>>
                 ELSE <<ServerMember(k, "u1", 2)>>]

\* What GET /v1/groups may carry in a 200 response that unmarshals: the
\* group, or the group with a title that does not decrypt.
ServerGroups(k, rev) == {ServerGroup(k, rev), [ServerGroup(k, rev) EXCEPT !.Title = Junk]}

\* The (user, profile key) pairs of the first n members.
ProfileKeysOf(members, n) == {<<members[i].UserID, members[i].ProfileKey>> : i \in 1..n}

\* ----------------------------------------------------------------- calls
CallRetrieveGroupByID(p, g, r) ==
    /\ ~crashed /\ proc[p].kind = "idle"
    /\ proc' = [proc EXCEPT ![p] = [IdleProc EXCEPT !.kind = "retrieve", !.pc = "init",
                                        !.gid = g, !.rev = r, !.pre = Snapshot]]
    /\ UNCHANGED <<now, GroupCache, GroupCredentials, GroupStore, serverRev, run, lastMiss, crashed, ProfileKeyStore, pureVars, handle>>

CallUpdateActiveCalls(p, g, c) ==
    /\ ~crashed /\ proc[p].kind = "idle"
    /\ proc' = [proc EXCEPT ![p] = [IdleProc EXCEPT !.kind = "calls", !.pc = "init",
                                        !.gid = g, !.callID = c, !.pre = Snapshot]]
    /\ UNCHANGED <<now, GroupCache, GroupCredentials, GroupStore, serverRev, run, lastMiss, crashed, ProfileKeyStore, pureVars, handle>>

CallGetAuthorizationForToday(p, k) ==
    /\ ~crashed /\ proc[p].kind = "idle"
    /\ proc' = [proc EXCEPT ![p] = [IdleProc EXCEPT !.kind = "auth", !.pc = "auth",
                                        !.key = k, !.pre = Snapshot]]
    /\ UNCHANGED <<now, GroupCache, GroupCredentials, GroupStore, serverRev, run, lastMiss, crashed, ProfileKeyStore, pureVars, handle>>

\* Mutant of initGroupCacheCheck: the cache is made anew on every call.
initGroupCacheAlways(p) ==
    /\ ~crashed /\ proc[p].pc = "init"
    /\ proc' = [proc EXCEPT ![p].pc = "init_create"]
    /\ UNCHANGED <<now, GroupCache, GroupCredentials, GroupStore, serverRev, run, lastMiss, crashed, ProfileKeyStore, pureVars, handle>>

\* initGroupCache, the test: if cli.GroupCache == nil
initGroupCacheCheck(p) ==
    /\ ~crashed /\ proc[p].pc = "init"
    /\ proc' = [proc EXCEPT ![p].pc =
                  IF GroupCache.nil THEN "init_create"
                  ELSE IF proc[p].kind = "retrieve" THEN "lookup" ELSE "calls"]
    /\ UNCHANGED <<now, GroupCache, GroupCredentials, GroupStore, serverRev, run, lastMiss, crashed, ProfileKeyStore, pureVars, handle>>

\* initGroupCache, the assignment: cli.GroupCache = &GroupCache{...}
initGroupCacheCreate(p) ==
    /\ ~crashed /\ proc[p].pc = "init_create"
    /\ GroupCache' = EmptyCache
    /\ proc' = [proc EXCEPT ![p].pc = IF proc[p].kind = "retrieve" THEN "lookup" ELSE "calls"]
    /\ UNCHANGED <<now, GroupCredentials, GroupStore, serverRev, run, lastMiss, crashed, ProfileKeyStore, pureVars, handle>>

\* RetrieveGroupByID: lastFetched, ok := cli.GroupCache.lastFetched[gid]
LookupLastFetched(p) ==
    /\ ~crashed /\ proc[p].pc = "lookup"
    /\ proc' = [proc EXCEPT ![p].pc =
                  IF IsFresh(GroupCache.lastFetched[proc[p].gid], now)
                  THEN "lookup_group" ELSE "fetch"]
    /\ UNCHANGED <<now, GroupCache, GroupCredentials, GroupStore, serverRev, run, lastMiss, crashed, ProfileKeyStore, pureVars, handle>>

\* Mutant of LookupGroup: a hit stamps the entry with the time of the hit.
LookupGroupTouches(p) ==
    /\ ~crashed /\ proc[p].pc = "lookup_group"
    /\ LET group == GroupCache.groups[proc[p].gid] IN
       /\ proc' = [proc EXCEPT ![p] =
                     IF RevisionOK(group, proc[p].rev)
                     THEN [Finish(proc[p], TRUE, "") EXCEPT !.cached = TRUE, !.group = group]
                     ELSE [proc[p] EXCEPT !.pc = "fetch"]]
       /\ GroupCache' = IF RevisionOK(group, proc[p].rev)
                        THEN [GroupCache EXCEPT !.lastFetched[proc[p].gid] = now]
                        ELSE GroupCache
    /\ UNCHANGED <<now, GroupCredentials, GroupStore, serverRev, run, lastMiss, crashed, ProfileKeyStore, pureVars, handle>>

\* RetrieveGroupByID: group, ok := cli.GroupCache.groups[gid]; return on a hit
LookupGroup(p) ==
    /\ ~crashed /\ proc[p].pc = "lookup_group"
    /\ LET group == GroupCache.groups[proc[p].gid] IN
       proc' = [proc EXCEPT ![p] =
                  IF RevisionOK(group, proc[p].rev)
                  THEN [Finish(proc[p], TRUE, "") EXCEPT !.cached = TRUE, !.group = group]
                  ELSE [proc[p] EXCEPT !.pc = "fetch"]]
    /\ UNCHANGED <<now, GroupCache, GroupCredentials, GroupStore, serverRev, run, lastMiss, crashed, ProfileKeyStore, pureVars, handle>>

\* fetchGroupByID up to the call of GetAuthorizationForToday: the master key
\* comes from the group store, which may fail or hold no key.
fetchGroupByID(p) ==
    /\ ~crashed /\ proc[p].pc = "fetch"
    /\ LET rec == [proc[p] EXCEPT !.nFetch = proc[p].nFetch + 1]
           key == GroupStore[rec.gid] IN
       \/ proc' = [proc EXCEPT ![p] = Finish(rec, FALSE, "master_key_store")]
       \/ /\ key = NoKey
          /\ proc' = [proc EXCEPT ![p] = Finish(rec, FALSE, "master_key_missing")]
       \/ /\ key # NoKey
          /\ proc' = [proc EXCEPT ![p] = [rec EXCEPT !.pc = "auth", !.key = key]]
    /\ UNCHANGED <<now, GroupCache, GroupCredentials, GroupStore, serverRev, run, lastMiss, crashed, ProfileKeyStore, pureVars, handle>>

\* GetAuthorizationForToday up to the credential request: today, the lookup in
\* the cached bundle and, on a miss, the request of fetchNewGroupCreds.
GetAuthorizationForToday(p) ==
    /\ ~crashed /\ proc[p].pc = "auth"
    /\ LET today == Truncate(now, Day)
           rec == [proc[p] EXCEPT !.today = today] IN
       IF getCachedAuthorizationForToday(GroupCredentials, today) = NoTime
       THEN proc' = [proc EXCEPT ![p] = [rec EXCEPT !.pc = "cred_wait",
                                               !.req = CredRequest(today),
                                               !.nCredReq = rec.nCredReq + 1]]
       ELSE \E r2 \in AuthOutcomes(rec, GroupCredentials) : proc' = [proc EXCEPT ![p] = r2]
    /\ UNCHANGED <<now, GroupCache, GroupCredentials, GroupStore, serverRev, run, lastMiss, crashed, ProfileKeyStore, pureVars, handle>>

\* Mutant of fetchNewGroupCreds: a failed request drops the cached bundle.
fetchNewGroupCredsClears(p) ==
    /\ ~crashed /\ proc[p].pc = "cred_wait"
    /\ \/ /\ \E e \in CredFetchErrors : proc' = [proc EXCEPT ![p] = Finish(proc[p], FALSE, e)]
          /\ GroupCredentials' = NoCreds
       \/ \E creds \in ServerBundles(proc[p].req) :
            LET rec == [proc[p] EXCEPT !.resp = creds] IN
            IF ~PNIMatches(creds)
            THEN /\ proc' = [proc EXCEPT ![p] = Finish(rec, FALSE, "creds_pni")]
                 /\ UNCHANGED GroupCredentials
            ELSE /\ GroupCredentials' = creds
                 /\ \E r2 \in AfterFetch(rec, creds) : proc' = [proc EXCEPT ![p] = r2]
    /\ UNCHANGED <<now, GroupCache, GroupStore, serverRev, run, lastMiss, crashed, ProfileKeyStore, pureVars, handle>>

\* fetchNewGroupCreds from the response on, and GetAuthorizationForToday after
\* it: the PNI check, cli.GroupCredentials = creds and the second lookup.
fetchNewGroupCreds(p) ==
    /\ ~crashed /\ proc[p].pc = "cred_wait"
    /\ \/ /\ \E e \in CredFetchErrors : proc' = [proc EXCEPT ![p] = Finish(proc[p], FALSE, e)]
          /\ UNCHANGED GroupCredentials
       \/ \E creds \in ServerBundles(proc[p].req) :
            LET rec == [proc[p] EXCEPT !.resp = creds] IN
            IF ~PNIMatches(creds)
            THEN /\ proc' = [proc EXCEPT ![p] = Finish(rec, FALSE, "creds_pni")]
                 /\ UNCHANGED GroupCredentials
            ELSE /\ GroupCredentials' = creds
                 /\ \E r2 \in AfterFetch(rec, creds) : proc' = [proc EXCEPT ![p] = r2]
    /\ UNCHANGED <<now, GroupCache, GroupStore, serverRev, run, lastMiss, crashed, ProfileKeyStore, pureVars, handle>>

\* Mutant of GroupResponse: the decrypted group is put in the cache before the
\* profile keys are stored, so a failing profile-key store leaves it there.
GroupResponseStoresFirst(p) ==
    /\ ~crashed /\ proc[p].pc = "group_wait"
    /\ \/ /\ \E e \in GroupFetchErrors : proc' = [proc EXCEPT ![p] = Finish(proc[p], FALSE, e)]
          /\ UNCHANGED <<GroupCache, ProfileKeyStore>>
       \/ \E enc \in ServerGroups(proc[p].key, proc[p].served) :
            LET d == decryptGroup(enc, proc[p].key) IN
            IF d.err # ""
            THEN /\ proc' = [proc EXCEPT ![p] = Finish(proc[p], FALSE, "group_decrypt")]
                 /\ UNCHANGED <<GroupCache, ProfileKeyStore>>
            ELSE \E n \in 0..Len(d.group.Members) :
                   /\ ProfileKeyStore' = ProfileKeyStore \cup ProfileKeysOf(d.group.Members, n)
                   /\ IF n < Len(d.group.Members)
                      THEN /\ proc' = [proc EXCEPT ![p] = Finish(proc[p], FALSE, "profile_key_store")]
                           /\ GroupCache' = [GroupCache EXCEPT !.groups[proc[p].gid] = d.group]
                      ELSE /\ proc' = [proc EXCEPT ![p] = [proc[p] EXCEPT !.pc = "store_group",
                                                                    !.group = d.group]]
                           /\ UNCHANGED GroupCache
    /\ UNCHANGED <<now, GroupCredentials, GroupStore, serverRev, run, lastMiss, crashed, pureVars, handle>>

\* Mutant of GroupResponse: an error of StoreProfileKey is not looked at, the
\* group goes on to the cache with whatever keys were stored.
GroupResponseIgnoresStore(p) ==
    /\ ~crashed /\ proc[p].pc = "group_wait"
    /\ \/ /\ \E e \in GroupFetchErrors : proc' = [proc EXCEPT ![p] = Finish(proc[p], FALSE, e)]
          /\ UNCHANGED ProfileKeyStore
       \/ \E enc \in ServerGroups(proc[p].key, proc[p].served) :
            LET d == decryptGroup(enc, proc[p].key) IN
            IF d.err # ""
            THEN /\ proc' = [proc EXCEPT ![p] = Finish(proc[p], FALSE, "group_decrypt")]
                 /\ UNCHANGED ProfileKeyStore
            ELSE \E n \in 0..Len(d.group.Members) :
                   /\ ProfileKeyStore' = ProfileKeyStore \cup ProfileKeysOf(d.group.Members, n)
                   /\ proc' = [proc EXCEPT ![p] =
                                 [proc[p] EXCEPT !.pc = "store_group", !.group = d.group]]
    /\ UNCHANGED <<now, GroupCache, GroupCredentials, GroupStore, serverRev, run, lastMiss,
                   crashed, pureVars, handle>>

\* fetchGroupByID from the response of GET /v1/groups on: status, body,
\* decryptGroup and the loop of StoreProfileKey over the decrypted members,
\* which ends at the first member whose key cannot be stored.
GroupResponse(p) ==
    /\ ~crashed /\ proc[p].pc = "group_wait"
    /\ \/ /\ \E e \in GroupFetchErrors : proc' = [proc EXCEPT ![p] = Finish(proc[p], FALSE, e)]
          /\ UNCHANGED ProfileKeyStore
       \/ \E enc \in ServerGroups(proc[p].key, proc[p].served) :
            LET d == decryptGroup(enc, proc[p].key) IN
            IF d.err # ""
            THEN /\ proc' = [proc EXCEPT ![p] = Finish(proc[p], FALSE, "group_decrypt")]
                 /\ UNCHANGED ProfileKeyStore
            ELSE \E n \in 0..Len(d.group.Members) :
                   /\ ProfileKeyStore' = ProfileKeyStore \cup ProfileKeysOf(d.group.Members, n)
                   /\ proc' = [proc EXCEPT ![p] =
                                 IF n < Len(d.group.Members)
                                 THEN Finish(proc[p], FALSE, "profile_key_store")
                                 ELSE [proc[p] EXCEPT !.pc = "store_group", !.group = d.group]]
    /\ UNCHANGED <<now, GroupCache, GroupCredentials, GroupStore, serverRev, run, lastMiss,
                   crashed, pureVars, handle>>

\* RetrieveGroupByID: cli.GroupCache.groups[gid] = group
StoreGroup(p) ==
    /\ ~crashed /\ proc[p].pc = "store_group"
    /\ GroupCache' = [GroupCache EXCEPT !.groups[proc[p].gid] = proc[p].group]
    /\ proc' = [proc EXCEPT ![p].pc = "store_time"]
    /\ UNCHANGED <<now, GroupCredentials, GroupStore, serverRev, run, lastMiss, crashed, ProfileKeyStore, pureVars, handle>>

\* Mutant of StoreLastFetched: the entry is stamped with the time the call began.
StoreLastFetchedAtCall(p) ==
    /\ ~crashed /\ proc[p].pc = "store_time"
    /\ GroupCache' = [GroupCache EXCEPT !.lastFetched[proc[p].gid] = proc[p].pre.now]
    /\ proc' = [proc EXCEPT ![p] = [Finish(proc[p], TRUE, "") EXCEPT !.storedAt = proc[p].pre.now]]
    /\ UNCHANGED <<now, GroupCredentials, GroupStore, serverRev, run, lastMiss, crashed, ProfileKeyStore, pureVars, handle>>

\* RetrieveGroupByID: cli.GroupCache.lastFetched[gid] = time.Now(); return group
StoreLastFetched(p) ==
    /\ ~crashed /\ proc[p].pc = "store_time"
    /\ GroupCache' = [GroupCache EXCEPT !.lastFetched[proc[p].gid] = now]
    /\ proc' = [proc EXCEPT ![p] = [Finish(proc[p], TRUE, "") EXCEPT !.storedAt = now]]
    /\ UNCHANGED <<now, GroupCredentials, GroupStore, serverRev, run, lastMiss, crashed, ProfileKeyStore, pureVars, handle>>

\* Mutant of ActiveCallsRead: any recorded call is taken to be the one that ends.
ActiveCallsReadAnyEnds(p) ==
    /\ ~crashed /\ proc[p].pc = "calls"
    /\ LET currentCallID == GroupCache.activeCalls[proc[p].gid] IN
       proc' = [proc EXCEPT ![p].pc =
                  IF currentCallID # NoCallID THEN "calls_delete" ELSE "calls_set"]
    /\ UNCHANGED <<now, GroupCache, GroupCredentials, GroupStore, serverRev, run, lastMiss, crashed, ProfileKeyStore, pureVars, handle>>

\* UpdateActiveCalls: currentCallID, ok := cli.GroupCache.activeCalls[gid]
ActiveCallsRead(p) ==
    /\ ~crashed /\ proc[p].pc = "calls"
    /\ LET currentCallID == GroupCache.activeCalls[proc[p].gid] IN
       proc' = [proc EXCEPT ![p].pc =
                  IF currentCallID # NoCallID /\ currentCallID = proc[p].callID
                  THEN "calls_delete" ELSE "calls_set"]
    /\ UNCHANGED <<now, GroupCache, GroupCredentials, GroupStore, serverRev, run, lastMiss, crashed, ProfileKeyStore, pureVars, handle>>

\* Mutant of ActiveCallsDelete: false is returned but the entry stays.
ActiveCallsDeleteKeeps(p) ==
    /\ ~crashed /\ proc[p].pc = "calls_delete"
    /\ proc' = [proc EXCEPT ![p] = [Finish(proc[p], TRUE, "") EXCEPT !.isActive = FALSE]]
    /\ UNCHANGED <<now, GroupCache, GroupCredentials, GroupStore, serverRev, run, lastMiss, crashed, ProfileKeyStore, pureVars, handle>>

\* UpdateActiveCalls: delete(cli.GroupCache.activeCalls, gid); return false
ActiveCallsDelete(p) ==
    /\ ~crashed /\ proc[p].pc = "calls_delete"
    /\ GroupCache' = [GroupCache EXCEPT !.activeCalls[proc[p].gid] = NoCallID]
    /\ proc' = [proc EXCEPT ![p] = [Finish(proc[p], TRUE, "") EXCEPT !.isActive = FALSE]]
    /\ UNCHANGED <<now, GroupCredentials, GroupStore, serverRev, run, lastMiss, crashed, ProfileKeyStore, pureVars, handle>>

\* UpdateActiveCalls: cli.GroupCache.activeCalls[gid] = callID; return true
ActiveCallsSet(p) ==
    /\ ~crashed /\ proc[p].pc = "calls_set"
    /\ GroupCache' = [GroupCache EXCEPT !.activeCalls[proc[p].gid] = proc[p].callID]
    /\ proc' = [proc EXCEPT ![p] = [Finish(proc[p], TRUE, "") EXCEPT !.isActive = TRUE]]
    /\ UNCHANGED <<now, GroupCredentials, GroupStore, serverRev, run, lastMiss, crashed, ProfileKeyStore, pureVars, handle>>

\* The results of the run of UpdateActiveCalls(g, c) calls with one id, after
\* the call recorded in rec returned.
RunAfter(r, rec) ==
    IF r.id = rec.callID /\ Len(r.rets) < MaxRun
    THEN [r EXCEPT !.rets = Append(r.rets, rec.isActive)]
    ELSE [id |-> rec.callID, rets |-> <<rec.isActive>>,
          fromEmpty |-> (rec.pre.cache.activeCalls[rec.gid] = NoCallID)]

\* The call returns to its caller.
Return(p) ==
    /\ ~crashed /\ proc[p].pc = "done"
    /\ proc' = [proc EXCEPT ![p] = IdleProc]
    /\ run' = IF proc[p].kind = "calls"
              THEN [run EXCEPT ![proc[p].gid] = RunAfter(run[proc[p].gid], proc[p])]
              ELSE run
    /\ lastMiss' = IF proc[p].kind = "retrieve" /\ proc[p].ok /\ ~proc[p].cached
                   THEN [lastMiss EXCEPT ![proc[p].gid] =
                           [at |-> proc[p].storedAt, rev |-> proc[p].group.Revision]]
                   ELSE lastMiss
    /\ UNCHANGED <<now, GroupCache, GroupCredentials, GroupStore, serverRev, crashed, ProfileKeyStore, pureVars, handle>>

\* Mutant of StoreMasterKey: the key is stored under an identifier that is not
\* derived from it.
StoreMasterKeyUnderFirst(k) ==
    /\ ~crashed
    /\ GroupStore["g1"] # k
    /\ GroupStore' = [GroupStore EXCEPT !["g1"] = k]
    /\ UNCHANGED <<now, GroupCache, GroupCredentials, serverRev, proc, run, lastMiss, crashed, ProfileKeyStore, pureVars, handle>>

\* StoreMasterKey: the key is stored under the identifier derived from it.
StoreMasterKey(k) ==
    /\ ~crashed
    /\ GroupStore[groupIdentifierFromMasterKey(k)] # k
    /\ GroupStore' = [GroupStore EXCEPT ![groupIdentifierFromMasterKey(k)] = k]
    /\ UNCHANGED <<now, GroupCache, GroupCredentials, serverRev, proc, run, lastMiss, crashed, ProfileKeyStore, pureVars, handle>>

\* ----------------------------------------------------------- environment
\* The group changes on the server: its revision goes up.
ServerBump(g) ==
    /\ ~crashed /\ serverRev[g] < MaxRev
    /\ serverRev' = [serverRev EXCEPT ![g] = serverRev[g] + 1]
    /\ UNCHANGED <<now, GroupCache, GroupCredentials, GroupStore, proc, run, lastMiss, crashed, ProfileKeyStore, pureVars, handle>>

\* Time passes between calls and while a call waits for the network: by single
\* ticks around the first midnight ...
TickSmall ==
    /\ ~crashed /\ (AllIdle \/ SomeWaiting)
    /\ now < StartTime + MaxSmallTicks
    /\ now' = now + 1
    /\ UNCHANGED <<GroupCache, GroupCredentials, GroupStore, serverRev, proc, run, lastMiss, crashed, ProfileKeyStore, pureVars, handle>>

\* ... or by whole days.
TickDay ==
    /\ ~crashed /\ (AllIdle \/ SomeWaiting)
    /\ now + Day <= StartTime + MaxDays * Day
    /\ now' = now + Day
    /\ UNCHANGED <<GroupCache, GroupCredentials, GroupStore, serverRev, proc, run, lastMiss, crashed, ProfileKeyStore, pureVars, handle>>

\* ------------------------------------------------------- specifications
\* Group metadata cache: RetrieveGroupByID calls of one caller, one after the
\* other, with the clock running by single ticks across the first midnight.
Next ==
    \/ \E p \in SeqProcs, g \in Gids, r \in Revs : CallRetrieveGroupByID(p, g, r)
    \/ \E p \in SeqProcs : initGroupCacheCheck(p)
    \/ \E p \in SeqProcs : initGroupCacheCreate(p)
    \/ \E p \in SeqProcs : LookupLastFetched(p)
    \/ \E p \in SeqProcs : LookupGroup(p)
    \/ \E p \in SeqProcs : fetchGroupByID(p)
    \/ \E p \in SeqProcs : GetAuthorizationForToday(p)
    \/ \E p \in SeqProcs : fetchNewGroupCreds(p)
    \/ \E p \in SeqProcs : GroupResponse(p)
    \/ \E p \in SeqProcs : StoreGroup(p)
    \/ \E p \in SeqProcs : StoreLastFetched(p)
    \/ \E p \in SeqProcs : Return(p)
    \/ \E k \in MasterKeys : StoreMasterKey(k)
    \/ \E g \in Gids : ServerBump(g)
    \/ TickSmall

Spec == Init /\ [][Next]_vars

\* Active-call tracker: UpdateActiveCalls calls of one caller.
NextCalls ==
    \/ \E p \in SeqProcs, g \in Gids, c \in CallIds : CallUpdateActiveCalls(p, g, c)
    \/ \E p \in SeqProcs : initGroupCacheCheck(p)
    \/ \E p \in SeqProcs : initGroupCacheCreate(p)
    \/ \E p \in SeqProcs : ActiveCallsRead(p)
    \/ \E p \in SeqProcs : ActiveCallsDelete(p)
    \/ \E p \in SeqProcs : ActiveCallsSet(p)
    \/ \E p \in SeqProcs : Return(p)

SpecCalls == Init /\ [][NextCalls]_vars

\* Daily credential manager: GetAuthorizationForToday called directly and
\* through RetrieveGroupByID of the first group, with the clock running by days.
NextCreds ==
    \/ \E p \in SeqProcs, k \in MasterKeys : CallGetAuthorizationForToday(p, k)
    \/ \E p \in SeqProcs : CallRetrieveGroupByID(p, "g1", 0)
    \/ \E p \in SeqProcs : initGroupCacheCheck(p)
    \/ \E p \in SeqProcs : initGroupCacheCreate(p)
    \/ \E p \in SeqProcs : LookupLastFetched(p)
    \/ \E p \in SeqProcs : LookupGroup(p)
    \/ \E p \in SeqProcs : fetchGroupByID(p)
    \/ \E p \in SeqProcs : GetAuthorizationForToday(p)
    \/ \E p \in SeqProcs : fetchNewGroupCreds(p)
    \/ \E p \in SeqProcs : GroupResponse(p)
    \/ \E p \in SeqProcs : StoreGroup(p)
    \/ \E p \in SeqProcs : StoreLastFetched(p)
    \/ \E p \in SeqProcs : Return(p)
    \/ StoreMasterKey("k1")
    \/ TickDay

SpecCreds == Init /\ [][NextCreds]_vars


\* ----------------------------------------------------------- concurrency
\* The field or map of the Client that the next step of goroutine p reads (FALSE)
\* or writes (TRUE).  A step on one of the maps also reads cli.GroupCache.
Access(p) ==
    LET pc == proc[p].pc IN
    IF pc = "init" THEN {<<"GroupCache", FALSE>>}
    ELSE IF pc = "init_create" THEN {<<"GroupCache", TRUE>>}
    ELSE IF pc = "lookup" THEN {<<"GroupCache", FALSE>>, <<"lastFetched", FALSE>>}
    ELSE IF pc = "lookup_group" THEN {<<"GroupCache", FALSE>>, <<"groups", FALSE>>}
    ELSE IF pc = "store_group" THEN {<<"GroupCache", FALSE>>, <<"groups", TRUE>>}
    ELSE IF pc = "store_time" THEN {<<"GroupCache", FALSE>>, <<"lastFetched", TRUE>>}
    ELSE IF pc = "calls" THEN {<<"GroupCache", FALSE>>, <<"activeCalls", FALSE>>}
    ELSE IF pc \in {"calls_delete", "calls_set"}
         THEN {<<"GroupCache", FALSE>>, <<"activeCalls", TRUE>>}
    ELSE IF pc = "auth" THEN {<<"GroupCredentials", FALSE>>}
    ELSE IF pc = "cred_wait" THEN {<<"GroupCredentials", TRUE>>}
    ELSE {}

\* No lock, channel or other synchronisation orders the steps of two calls:
\* the next accesses of p and q race when they are on the same field or map and
\* one of them writes.
Race(p, q) ==
    /\ p # q
    /\ \E a \in Access(p), b \in Access(q) : a[1] = b[1] /\ (a[2] \/ b[2])

MapNames == {"groups", "lastFetched", "activeCalls"}

\* Two goroutines on one Go map, one of them writing: the runtime may detect
\* it and abort the program ("fatal error: concurrent map writes").
RuntimeFatal ==
    /\ ~crashed
    /\ \E p, q \in Procs :
          /\ p # q
          /\ \E a \in Access(p), b \in Access(q) :
                a[1] = b[1] /\ a[1] \in MapNames /\ (a[2] \/ b[2])
    /\ crashed' = TRUE
    /\ UNCHANGED <<now, GroupCache, GroupCredentials, GroupStore, serverRev, proc, run, lastMiss, ProfileKeyStore, pureVars, handle>>

\* Two goroutines sharing the Client, their calls interleaving step by step;
\* GetAuthorizationForToday runs as part of RetrieveGroupByID.
NextConc ==
    \/ \E p \in Procs : CallRetrieveGroupByID(p, "g1", 0)
    \/ \E p \in Procs : CallUpdateActiveCalls(p, "g1", "c1")
    \/ \E p \in Procs : initGroupCacheCheck(p)
    \/ \E p \in Procs : initGroupCacheCreate(p)
    \/ \E p \in Procs : LookupLastFetched(p)
    \/ \E p \in Procs : LookupGroup(p)
    \/ \E p \in Procs : fetchGroupByID(p)
    \/ \E p \in Procs : GetAuthorizationForToday(p)
    \/ \E p \in Procs : fetchNewGroupCreds(p)
    \/ \E p \in Procs : GroupResponse(p)
    \/ \E p \in Procs : StoreGroup(p)
    \/ \E p \in Procs : StoreLastFetched(p)
    \/ \E p \in Procs : ActiveCallsRead(p)
    \/ \E p \in Procs : ActiveCallsDelete(p)
    \/ \E p \in Procs : ActiveCallsSet(p)
    \/ \E p \in Procs : Return(p)
    \/ StoreMasterKey("k1")
    \/ RuntimeFatal

SpecConc == Init /\ [][NextConc]_vars

\* Concurrent RetrieveGroupByID calls for one group while the server moves the
\* group to later revisions.
NextRevs ==
    \/ \E p \in Procs : CallRetrieveGroupByID(p, "g1", 0)
    \/ \E p \in Procs : initGroupCacheCheck(p)
    \/ \E p \in Procs : initGroupCacheCreate(p)
    \/ \E p \in Procs : LookupLastFetched(p)
    \/ \E p \in Procs : LookupGroup(p)
    \/ \E p \in Procs : fetchGroupByID(p)
    \/ \E p \in Procs : GetAuthorizationForToday(p)
    \/ \E p \in Procs : fetchNewGroupCreds(p)
    \/ \E p \in Procs : GroupResponse(p)
    \/ \E p \in Procs : StoreGroup(p)
    \/ \E p \in Procs : StoreLastFetched(p)
    \/ \E p \in Procs : Return(p)
    \/ StoreMasterKey("k1")
    \/ ServerBump("g1")
    \/ RuntimeFatal

SpecRevs == Init /\ [][NextRevs]_vars

\* RetrieveGroupByID and UpdateActiveCalls of one caller, one after the other,
\* over both groups.
NextFrame ==
    \/ \E p \in SeqProcs, g \in Gids, r \in Revs : CallRetrieveGroupByID(p, g, r)
    \/ \E p \in SeqProcs, g \in Gids : CallUpdateActiveCalls(p, g, "c1")
    \/ \E p \in SeqProcs : initGroupCacheCheck(p)
    \/ \E p \in SeqProcs : initGroupCacheCreate(p)
    \/ \E p \in SeqProcs : LookupLastFetched(p)
    \/ \E p \in SeqProcs : LookupGroup(p)
    \/ \E p \in SeqProcs : fetchGroupByID(p)
    \/ \E p \in SeqProcs : GetAuthorizationForToday(p)
    \/ \E p \in SeqProcs : fetchNewGroupCreds(p)
    \/ \E p \in SeqProcs : GroupResponse(p)
    \/ \E p \in SeqProcs : StoreGroup(p)
    \/ \E p \in SeqProcs : StoreLastFetched(p)
    \/ \E p \in SeqProcs : ActiveCallsRead(p)
    \/ \E p \in SeqProcs : ActiveCallsDelete(p)
    \/ \E p \in SeqProcs : ActiveCallsSet(p)
    \/ \E p \in SeqProcs : Return(p)
    \/ \E k \in MasterKeys : StoreMasterKey(k)

SpecFrame == Init /\ [][NextFrame]_vars

\* ------------------------------------------- decryptGroup on its own
\* The encrypted groups decryptGroup is applied to.  Each property is empty,
\* junk, sealed bytes that are no blob, or a blob sealed under either key.
PropertyCiphertexts(kind, value) ==
    {EmptyBytes, Junk, Seal("k1", Malformed)} \cup {Seal(k, Blob(kind, value)) : k \in MasterKeys}

\* Members: nil, a member of every role, a second member, a member whose
\* user id is junk, and a member whose profile key was sealed for another user.
MemberEntries ==
    {NilMember} \cup {ServerMember("k1", "u1", r) : r \in 0..MaxRole}
    \cup {ServerMember("k1", "u2", 2),
          [ServerMember("k1", "u1", 1) EXCEPT !.UserId = Junk],
          [ServerMember("k1", "u1", 1) EXCEPT !.ProfileKey = SealProfileKey("k1", "u2", "pk2")]}

SeqsUpTo(S, n) == UNION {[1..k -> S] : k \in 0..n}

EncryptedGroups ==
    [Title : PropertyCiphertexts("title", <<"SP", "a", "LF", "a", "LF", "SP">>),
     Description : PropertyCiphertexts("description", <<"a", "SP">>),
     DisappearingMessagesTimer : PropertyCiphertexts("timer", 1),
     Avatar : {"avatar"}, Revision : Revs,
     Members : SeqsUpTo(MemberEntries, MaxMembers)]

InitDecrypt ==
    /\ InitClient
    /\ encryptedGroup \in EncryptedGroups /\ decryptKey \in MasterKeys /\ decrypted = NotCalled
    /\ codecIn = NoCodecCall /\ codecOut = <<>>

\* decryptGroup(ctx, encryptedGroup, groupMasterKey)
CallDecryptGroup ==
    /\ decrypted = NotCalled
    /\ decrypted' = decryptGroup(encryptedGroup, decryptKey)
    /\ UNCHANGED <<now, GroupCache, GroupCredentials, GroupStore, serverRev, proc, run, lastMiss,
                   crashed, ProfileKeyStore, encryptedGroup, decryptKey, codecIn, codecOut, handle>>

NextDecrypt == CallDecryptGroup

SpecDecrypt == InitDecrypt /\ [][NextDecrypt]_vars


\* --------------------------------------------------- the master-key codec
\* base64 at half width.  A byte has 4 bits and a digit 3, so that, as with
\* bytes of 8 bits and digits of 6, three bytes make four digits, one byte is
\* two digits and "==", two bytes are three digits and "=".
ByteValues == 0..15
Alphabet == <<"0", "1", "2", "3", "4", "5", "6", "7">>
Digits == {Alphabet[i] : i \in 1..Len(Alphabet)}
DigitValue(c) == CHOOSE v \in 0..(Len(Alphabet) - 1) : Alphabet[v + 1] = c

\* The length of a libsignalgo.GroupMasterKey, in bytes.  A key of 32 bytes
\* ends in a group of two bytes and so does this one.
KeyLen == 2

\* Mutant of EncodeToString: the last group is written without its padding.
RECURSIVE EncodeUnpadded(_)
EncodeUnpadded(b) ==
    IF Len(b) = 0 THEN <<>>
    ELSE IF Len(b) = 1 THEN <<Alphabet[(b[1] \div 2) + 1], Alphabet[((b[1] % 2) * 4) + 1]>>
    ELSE IF Len(b) = 2
         THEN LET v == b[1] * 16 + b[2] IN
              <<Alphabet[(v \div 32) + 1], Alphabet[((v \div 4) % 8) + 1],
                Alphabet[((v % 4) * 2) + 1]>>
    ELSE LET v == b[1] * 256 + b[2] * 16 + b[3] IN
         <<Alphabet[(v \div 512) + 1], Alphabet[((v \div 64) % 8) + 1],
           Alphabet[((v \div 8) % 8) + 1], Alphabet[(v % 8) + 1]>>
         \o EncodeUnpadded(SubSeq(b, 4, Len(b)))

\* base64.StdEncoding.EncodeToString
RECURSIVE EncodeToString(_)
EncodeToString(b) ==
    IF Len(b) = 0 THEN <<>>
    ELSE IF Len(b) = 1
         THEN <<Alphabet[(b[1] \div 2) + 1], Alphabet[((b[1] % 2) * 4) + 1], "=", "=">>
    ELSE IF Len(b) = 2
         THEN LET v == b[1] * 16 + b[2] IN
              <<Alphabet[(v \div 32) + 1], Alphabet[((v \div 4) % 8) + 1],
                Alphabet[((v % 4) * 2) + 1], "=">>
    ELSE LET v == b[1] * 256 + b[2] * 16 + b[3] IN
         <<Alphabet[(v \div 512) + 1], Alphabet[((v \div 64) % 8) + 1],
           Alphabet[((v \div 8) % 8) + 1], Alphabet[(v % 8) + 1]>>
         \o EncodeToString(SubSeq(b, 4, Len(b)))

IsNotNewline(c) == c # "LF"

\* The decoder on input without line breaks, four characters at a time.
\* Padding is accepted only where the input ends; the bits of the last digit
\* that belong to no byte are dropped without being looked at.
RECURSIVE DecodeQuanta(_)
DecodeQuanta(s) ==
    IF Len(s) = 0 THEN [err |-> FALSE, bytes |-> <<>>]
    ELSE IF Len(s) < 4 \/ s[1] \notin Digits \/ s[2] \notin Digits
         THEN [err |-> TRUE, bytes |-> <<>>]
    ELSE IF s[3] \in Digits /\ s[4] \in Digits
         THEN LET v == DigitValue(s[1]) * 512 + DigitValue(s[2]) * 64
                       + DigitValue(s[3]) * 8 + DigitValue(s[4])
                  rest == DecodeQuanta(SubSeq(s, 5, Len(s))) IN
              IF rest.err THEN rest
              ELSE [err |-> FALSE,
                    bytes |-> <<v \div 256, (v \div 16) % 16, v % 16>> \o rest.bytes]
    ELSE IF Len(s) = 4 /\ s[3] \in Digits /\ s[4] = "="
         THEN LET v == (DigitValue(s[1]) * 64 + DigitValue(s[2]) * 8 + DigitValue(s[3])) \div 2 IN
              [err |-> FALSE, bytes |-> <<v \div 16, v % 16>>]
    ELSE IF Len(s) = 4 /\ s[3] = "=" /\ s[4] = "="
         THEN [err |-> FALSE, bytes |-> <<(DigitValue(s[1]) * 8 + DigitValue(s[2])) \div 4>>]
    ELSE [err |-> TRUE, bytes |-> <<>>]

\* base64.StdEncoding.DecodeString: line breaks in the input are skipped.
DecodeString(s) == DecodeQuanta(SelectSeq(s, IsNotNewline))

\* libsignalgo.GroupMasterKey(masterKeyBytes), a conversion from a slice to an
\* array: a run-time panic if the slice is shorter than the array, and the
\* first elements of the slice otherwise.
SliceToArray(bytes) ==
    IF Len(bytes) < KeyLen THEN [panic |-> "conversion", value |-> <<>>]
    ELSE [panic |-> "", value |-> SubSeq(bytes, 1, KeyLen)]

\* masterKeyToBytes
masterKeyToBytes(serialized) ==
    LET d == DecodeString(serialized) IN
    IF d.err THEN [panic |-> "decode", value |-> <<>>]
    ELSE SliceToArray(d.bytes)

\* masterKeyFromBytes
masterKeyFromBytes(masterKey) == [panic |-> "", value |-> EncodeToString(masterKey)]

\* The arguments the codec is applied to: every string of up to MaxChars
\* characters of digits, padding, line breaks and a character outside the
\* alphabet, and every raw key.
Symbols == Digits \cup {"=", "LF", "*"}
SerializedInputs == SeqsUpTo(Symbols, MaxChars)
RawKeys == [1..KeyLen -> ByteValues]

InitCodec ==
    /\ InitClient
    /\ encryptedGroup = NoGroup /\ decryptKey = NoKey /\ decrypted = NotCalled
    /\ codecIn \in [fn : {"masterKeyToBytes"}, arg : SerializedInputs]
                   \cup [fn : {"masterKeyFromBytes"}, arg : RawKeys]
    /\ codecOut = <<>>

\* masterKeyToBytes applied to the argument, or to the serialized key that
\* masterKeyFromBytes has just returned.
CallMasterKeyToBytes ==
    /\ \/ codecIn.fn = "masterKeyToBytes" /\ Len(codecOut) = 0
       \/ codecIn.fn = "masterKeyFromBytes" /\ Len(codecOut) = 1
    /\ codecOut' = Append(codecOut, masterKeyToBytes(IF Len(codecOut) = 0 THEN codecIn.arg
                                                     ELSE codecOut[1].value))
    /\ UNCHANGED <<now, GroupCache, GroupCredentials, GroupStore, serverRev, proc, run, lastMiss,
                   crashed, ProfileKeyStore, encryptedGroup, decryptKey, decrypted, codecIn, handle>>

\* masterKeyFromBytes applied to the argument, or to the key that
\* masterKeyToBytes has just returned.
CallMasterKeyFromBytes ==
    /\ \/ codecIn.fn = "masterKeyFromBytes" /\ Len(codecOut) = 0
       \/ codecIn.fn = "masterKeyToBytes" /\ Len(codecOut) = 1 /\ codecOut[1].panic = ""
    /\ codecOut' = Append(codecOut, masterKeyFromBytes(IF Len(codecOut) = 0 THEN codecIn.arg
                                                       ELSE codecOut[1].value))
    /\ UNCHANGED <<now, GroupCache, GroupCredentials, GroupStore, serverRev, proc, run, lastMiss,
                   crashed, ProfileKeyStore, encryptedGroup, decryptKey, decrypted, codecIn, handle>>

NextCodec ==
    \/ CallMasterKeyToBytes
    \/ CallMasterKeyFromBytes

SpecCodec == InitCodec /\ [][NextCodec]_vars

\* ------------------------------------------- wrappers of native handles
\* sc := &SenderCertificate{ptr: ptr}; runtime.SetFinalizer(sc, Destroy), and
\* the same for a Fingerprint: a new wrapper of a new native handle.
Wrapped ==
    [state |-> "reachable", finalizer |-> TRUE, inDestroy |-> 0, released |-> 0,
     explicit |-> 0, cancelled |-> FALSE, finalized |-> 0]

HandleStep(w, h) ==
    /\ handle' = [handle EXCEPT ![w] = h]
    /\ UNCHANGED <<now, GroupCache, GroupCredentials, GroupStore, serverRev, proc, run, lastMiss,
                   crashed, ProfileKeyStore, pureVars>>

\* wrapFingerprint, from NewFingerprint or from Clone of a fingerprint in use.
wrapFingerprint(w) ==
    /\ w \in Fingerprints /\ handle[w].state = "none"
    /\ HandleStep(w, Wrapped)

\* wrapSenderCertificate, from NewSenderCertificate, DeserializeSenderCertificate
\* or Clone.
wrapSenderCertificate(w) ==
    /\ w \in SenderCertificates /\ handle[w].state = "none"
    /\ HandleStep(w, Wrapped)

\* Mutant of FingerprintDestroy: the finalizer is left in place.
FingerprintDestroyKeepsFinalizer(w) ==
    /\ w \in Fingerprints /\ handle[w].state = "reachable" /\ handle[w].explicit < MaxDestroy
    /\ HandleStep(w, [handle[w] EXCEPT !.explicit = @ + 1, !.inDestroy = @ + 1])

\* (*Fingerprint).Destroy called by a holder of the wrapper, its first
\* statement: runtime.SetFinalizer(f, nil)
FingerprintDestroy(w) ==
    /\ w \in Fingerprints /\ handle[w].state = "reachable" /\ handle[w].explicit < MaxDestroy
    /\ HandleStep(w, [handle[w] EXCEPT !.finalizer = FALSE, !.explicit = @ + 1,
                                       !.inDestroy = @ + 1])

\* (*SenderCertificate).Destroy called by a holder of the wrapper, its first
\* statement: sc.CancelFinalizer()
SenderCertificateDestroy(w) ==
    /\ w \in SenderCertificates /\ handle[w].state = "reachable"
    /\ handle[w].explicit < MaxDestroy
    /\ HandleStep(w, [handle[w] EXCEPT !.finalizer = FALSE, !.explicit = @ + 1,
                                       !.inDestroy = @ + 1])

\* (*SenderCertificate).CancelFinalizer called on its own by a holder of the
\* wrapper.
CancelFinalizer(w) ==
    /\ w \in SenderCertificates /\ handle[w].state = "reachable" /\ ~handle[w].cancelled
    /\ HandleStep(w, [handle[w] EXCEPT !.finalizer = FALSE, !.cancelled = TRUE])

\* The second statement of either Destroy: C.signal_fingerprint_destroy(f.ptr)
\* or C.signal_sender_certificate_destroy(sc.ptr).  ptr is not cleared.  When
\* the call was the finalizer, the wrapper is unreachable again after it.
NativeDestroy(w) ==
    /\ handle[w].inDestroy > 0
    /\ HandleStep(w, [handle[w] EXCEPT !.released = @ + 1, !.inDestroy = @ - 1,
                         !.state = IF @ = "finalizing" THEN "unreachable" ELSE @])

\* The last reference to the wrapper is dropped; a call of Destroy that has
\* not come to the native destroy still holds one.
DropReferences(w) ==
    /\ handle[w].state = "reachable" /\ handle[w].inDestroy = 0
    /\ HandleStep(w, [handle[w] EXCEPT !.state = "unreachable"])

\* The garbage collector finds the wrapper unreachable with a finalizer set:
\* the runtime clears the finalizer and calls it, which is Destroy with its
\* SetFinalizer(nil).
RunFinalizer(w) ==
    /\ handle[w].state = "unreachable" /\ handle[w].finalizer
    /\ HandleStep(w, [handle[w] EXCEPT !.state = "finalizing", !.finalizer = FALSE,
                                       !.finalized = @ + 1, !.inDestroy = @ + 1])

\* The garbage collector frees an unreachable wrapper that has no finalizer.
Collect(w) ==
    /\ handle[w].state = "unreachable" /\ ~handle[w].finalizer
    /\ HandleStep(w, [handle[w] EXCEPT !.state = "collected"])

NextHandles ==
    \/ \E w \in Wrappers : wrapFingerprint(w)
    \/ \E w \in Wrappers : wrapSenderCertificate(w)
    \/ \E w \in Wrappers : FingerprintDestroy(w)
    \/ \E w \in Wrappers : SenderCertificateDestroy(w)
    \/ \E w \in Wrappers : CancelFinalizer(w)
    \/ \E w \in Wrappers : NativeDestroy(w)
    \/ \E w \in Wrappers : DropReferences(w)
    \/ \E w \in Wrappers : RunFinalizer(w)
    \/ \E w \in Wrappers : Collect(w)

SpecHandles == Init /\ [][NextHandles]_vars

\* ------------------------------------------------------------ the claims
\* The calls that have run to their return statement.
Done(kind) == {p \in Procs : proc[p].kind = kind /\ proc[p].pc = "done"}

\* The start of the UTC day of t.
DayStart(t) == t - (t % Day)

\* The cache entry of the call's group, as it was when the call began, answers
\* the call: it exists, is less than an hour old and has the revision asked for.
PreHit(rec) ==
    LET fetchedAt == rec.pre.cache.lastFetched[rec.gid]
        group == rec.pre.cache.groups[rec.gid] IN
    /\ fetchedAt # NoTime /\ group # NoGroup
    /\ rec.pre.now - fetchedAt < FreshHours * Hour
    /\ group.Revision >= rec.rev

\* C1: RetrieveGroupByID(gid, rev) returns the cached group, without any
\* request, exactly when an entry for gid exists, is less than one hour old and
\* has a revision >= rev; every other call runs fetchGroupByID exactly once and
\* sends at most one group request.
C1_HitIffFreshAndRevision ==
    \A p \in Done("retrieve") :
        LET rec == proc[p] IN
        /\ rec.cached <=> PreHit(rec)
        /\ rec.cached =>
              /\ rec.ok /\ rec.group = rec.pre.cache.groups[rec.gid]
              /\ rec.nFetch = 0 /\ rec.nGroupReq = 0 /\ rec.nCredReq = 0
        /\ ~rec.cached => rec.nFetch = 1 /\ rec.nGroupReq <= 1

\* C1 witness: a hit on an entry one tick short of an hour old.
C1_Witness ==
    \E p \in Done("retrieve") :
        /\ proc[p].cached
        /\ proc[p].pre.now - proc[p].pre.cache.lastFetched[proc[p].gid] = FreshHours * Hour - 1

\* C1, the other side: a miss on an entry that exists and is fresh but has a
\* revision below the one asked for.
C1_WitnessRevisionMiss ==
    \E p \in Done("retrieve") :
        /\ ~proc[p].cached /\ proc[p].ok
        /\ proc[p].pre.cache.lastFetched[proc[p].gid] = proc[p].pre.now
        /\ proc[p].pre.cache.groups[proc[p].gid].Revision < proc[p].rev

\* C2: after a miss whose fetch and decryption succeed, groups[gid] is the
\* fetched group, lastFetched[gid] is the time of the store, the same group is
\* returned; and a later RetrieveGroupByID(gid, r) begun less than an hour after
\* that store, with r <= the fetched revision, is a hit without any fetch.
C2_MissStoresAndServesNext ==
    /\ \A p \in Done("retrieve") :
          proc[p].ok /\ ~proc[p].cached =>
              /\ GroupCache.groups[proc[p].gid] = proc[p].group
              /\ proc[p].group.Revision = proc[p].served
              /\ proc[p].group.groupMasterKey = GroupStore[proc[p].gid]
              /\ GroupCache.lastFetched[proc[p].gid] = now
    /\ \A p \in Done("retrieve") :
          LET last == lastMiss[proc[p].gid] IN
          (/\ last.at # NoTime
           /\ proc[p].pre.now - last.at < FreshHours * Hour
           /\ proc[p].rev <= last.rev)
          => /\ proc[p].cached /\ proc[p].ok
             /\ proc[p].nFetch = 0 /\ proc[p].nGroupReq = 0
             /\ proc[p].group.Revision = last.rev

\* C2 witness: a hit on the group stored by an earlier miss, the store having
\* happened after that call began and before this one did.
C2_Witness ==
    \E p \in Done("retrieve") :
        /\ proc[p].cached
        /\ lastMiss[proc[p].gid].at > StartTime
        /\ proc[p].pre.now > lastMiss[proc[p].gid].at
        /\ proc[p].rev = lastMiss[proc[p].gid].rev

\* C3: a RetrieveGroupByID whose fetch fails at any stage returns an error and
\* no group, and groups and lastFetched are as they were before the call.
C3_FailedFetchLeavesCache ==
    \A p \in Done("retrieve") :
        ~proc[p].ok =>
            /\ proc[p].err # "" /\ proc[p].group = NoGroup /\ ~proc[p].cached
            /\ GroupCache.groups = proc[p].pre.cache.groups
            /\ GroupCache.lastFetched = proc[p].pre.cache.lastFetched

\* C3 witness: the profile-key store fails while a stale entry is cached.
C3_Witness ==
    \E p \in Done("retrieve") :
        /\ proc[p].err = "profile_key_store"
        /\ GroupCache.lastFetched[proc[p].gid] # NoTime
        /\ GroupCache.groups[proc[p].gid].Revision < proc[p].served

\* C4: the accesses of concurrent calls to the cache maps and to the cached
\* credential bundle are serialized: never are two calls about to read or write
\* the same shared field or map with one of them writing.
C4_AccessSerialized ==
    \A p, q \in Procs : ~Race(p, q)

\* C5: at no point are two group fetches for one group identifier in flight.
C5_SingleFlight ==
    \A g \in Gids :
        Cardinality({p \in Procs : /\ proc[p].kind = "retrieve"
                                   /\ proc[p].pc = "group_wait"
                                   /\ proc[p].gid = g}) <= 1

\* C6: from no recorded call, three UpdateActiveCalls(g, c) with one id return
\* true, false, true; with no other id in between the results alternate; after
\* true, activeCalls[g] = c, after false g has no recorded call.
C6_ToggleAlternates ==
    /\ \A g \in Gids :
          LET rets == run[g].rets IN
          /\ \A i \in 1..(Len(rets) - 1) : rets[i + 1] = ~rets[i]
          /\ run[g].fromEmpty => \A i \in 1..Len(rets) : rets[i] = (i % 2 = 1)
    /\ \A p \in Done("calls") :
          LET rec == proc[p] IN
          /\ rec.isActive => GroupCache.activeCalls[rec.gid] = rec.callID
          /\ ~rec.isActive => GroupCache.activeCalls[rec.gid] = NoCallID
          /\ rec.pre.cache.activeCalls[rec.gid] = NoCallID => rec.isActive
          /\ (run[rec.gid].id = rec.callID /\ run[rec.gid].rets # <<>>)
                => rec.isActive = ~run[rec.gid].rets[Len(run[rec.gid].rets)]

\* C6 witness: true, false, true from a group without a recorded call.
C6_Witness ==
    \E g \in Gids : run[g].fromEmpty /\ run[g].rets = <<TRUE, FALSE, TRUE>>

\* C7: with d recorded for g, UpdateActiveCalls(g, c), c # d, records c in its
\* place and returns true; false is returned only when the recorded id is the
\* argument; the other groups keep their recorded call.
C7_DifferentIdOverwrites ==
    \A p \in Done("calls") :
        LET rec == proc[p]
            before == rec.pre.cache.activeCalls IN
        /\ (before[rec.gid] # NoCallID /\ before[rec.gid] # rec.callID)
              => rec.isActive /\ GroupCache.activeCalls[rec.gid] = rec.callID
        /\ ~rec.isActive => before[rec.gid] = rec.callID
        /\ \A g \in Gids \ {rec.gid} : GroupCache.activeCalls[g] = before[g]

\* C7 witness: a call with another id than the recorded one has returned.
C7_Witness ==
    \E p \in Done("calls") :
        /\ proc[p].pre.cache.activeCalls[proc[p].gid] \in CallIds \ {proc[p].callID}
        /\ GroupCache.activeCalls[proc[p].gid] = proc[p].callID

\* The calls in which GetAuthorizationForToday ran and has returned.
DoneAuth == {p \in Procs : proc[p].pc = "done" /\ proc[p].today # -1}

\* The bundle of the days D0, ..., D0 + 6 days, issued for this account.
WeekBundle(D0) ==
    [nil |-> FALSE, ACI |-> OwnACI, PNI |-> OwnPNI,
     Credentials |-> {D0 + k * Day : k \in 0..(WindowDays - 1)}]

\* C8: with a bundle of one credential per day of [D0, D0 + 7 days) cached, a
\* GetAuthorizationForToday on any of its seven days sends no credential
\* request, and one on day D0 + 7 or on any other day sends one.
C8_BundleServesSevenDays ==
    \A p \in DoneAuth :
        \A D0 \in {DayStart(StartTime) + k * Day : k \in 0..MaxDays} :
            proc[p].pre.creds = WeekBundle(D0) =>
                LET today == DayStart(proc[p].pre.now) IN
                IF today >= D0 /\ today < D0 + WindowDays * Day
                THEN proc[p].nCredReq = 0 /\ GroupCredentials = WeekBundle(D0)
                ELSE proc[p].nCredReq = 1

\* C8 witness: the bundle fetched on D0 has served a call on day D0 + 6.
C8_Witness ==
    \E p \in DoneAuth :
        /\ proc[p].pre.creds = WeekBundle(DayStart(proc[p].pre.now) - (WindowDays - 1) * Day)
        /\ proc[p].nCredReq = 0 /\ proc[p].auth

\* C8, the other side: the call on day D0 + 7 has fetched a new bundle.
C8_WitnessRefetch ==
    \E p \in DoneAuth :
        /\ proc[p].pre.creds = WeekBundle(DayStart(proc[p].pre.now) - WindowDays * Day)
        /\ proc[p].nCredReq = 1 /\ proc[p].auth

\* C9: GetAuthorizationForToday sends a credential request exactly when no
\* bundle is cached or the cached one has no credential for the start of the
\* current UTC day; the request is for [today, today + 7 days); the bundle
\* received replaces the cached one as a whole.
C9_FetchIffNoCredentialForToday ==
    \A p \in DoneAuth :
        LET rec == proc[p]
            today == DayStart(rec.pre.now)
            missing == rec.pre.creds.nil \/ today \notin rec.pre.creds.Credentials IN
        /\ rec.nCredReq = (IF missing THEN 1 ELSE 0)
        /\ missing => rec.req = [start |-> today, end |-> today + WindowDays * Day]
        /\ ~missing => rec.req = NoReq /\ GroupCredentials = rec.pre.creds
        /\ (rec.resp # NoCreds /\ rec.resp.PNI = OwnPNI) => GroupCredentials = rec.resp

\* C9 witness: a bundle without today's credential was cached and the bundle
\* received has taken its place.
C9_Witness ==
    \E p \in DoneAuth :
        /\ ~proc[p].pre.creds.nil
        /\ proc[p].nCredReq = 1
        /\ GroupCredentials = proc[p].resp /\ GroupCredentials # proc[p].pre.creds
        /\ proc[p].pre.creds.Credentials \cap GroupCredentials.Credentials # {}

\* C10: when the bundle just fetched has no credential for today either, the
\* call fails, yields no GroupAuth, and has sent one credential request only.
C10_NoCredentialAfterFetchFails ==
    \A p \in DoneAuth :
        LET rec == proc[p] IN
        (/\ rec.resp # NoCreds /\ rec.resp.PNI = OwnPNI
         /\ DayStart(rec.pre.now) \notin rec.resp.Credentials)
        => /\ ~rec.ok /\ ~rec.auth /\ rec.err = "creds_no_today"
           /\ rec.nCredReq = 1 /\ rec.nGroupReq = 0

\* C10 witness: the server left today out of the bundle it returned.
C10_Witness ==
    \E p \in DoneAuth :
        /\ proc[p].nCredReq = 1 /\ proc[p].resp.PNI = OwnPNI /\ ~proc[p].resp.nil
        /\ proc[p].today \notin proc[p].resp.Credentials

\* C11 as claimed: a bundle whose ACI or PNI is not the session's own makes the
\* fetch fail, after one request, is never cached and yields no GroupAuth.
C11_MismatchRejected ==
    \A p \in DoneAuth :
        LET rec == proc[p] IN
        (rec.resp # NoCreds /\ (rec.resp.ACI # OwnACI \/ rec.resp.PNI # OwnPNI))
        => /\ ~rec.ok /\ ~rec.auth /\ rec.nCredReq = 1
           /\ rec.err = "creds_pni"
           /\ GroupCredentials # rec.resp

\* C11 as amended: a bundle whose PNI is not the session's own makes the fetch
\* fail after one request, leaves the cached bundle as it was and yields no
\* GroupAuth; a bundle that differs in the ACI alone passes fetchNewGroupCreds
\* and becomes the cached bundle.
C11_PNIMismatchRejected ==
    \A p \in DoneAuth :
        LET rec == proc[p] IN
        /\ (rec.resp # NoCreds /\ rec.resp.PNI # OwnPNI)
           => /\ ~rec.ok /\ ~rec.auth /\ rec.err = "creds_pni"
              /\ rec.nCredReq = 1 /\ rec.nGroupReq = 0
              /\ GroupCredentials = rec.pre.creds /\ GroupCredentials # rec.resp
        /\ (rec.resp # NoCreds /\ rec.resp.PNI = OwnPNI /\ rec.resp.ACI # OwnACI)
           => GroupCredentials = rec.resp /\ rec.err # "creds_pni"

\* C11 witness: a bundle with another PNI arrived while a bundle was cached.
C11_Witness ==
    \E p \in DoneAuth :
        /\ proc[p].resp.PNI = "pni-other"
        /\ ~proc[p].pre.creds.nil /\ GroupCredentials = proc[p].pre.creds

\* ------------------------------------------------------------- C12 .. C15
DecryptCalled == decrypted # NotCalled
DecryptParams == DeriveGroupSecretParamsFromMasterKey(decryptKey)
PropertyFails(bytes) == decryptGroupPropertyIntoBlob(DecryptParams, bytes).err # ""
MemberFails(member) ==
    /\ ~member.nil
    /\ LET u == DecryptUUID(DecryptParams, member.UserId) IN
       u.err # "" \/ DecryptProfileKey(DecryptParams, member.ProfileKey, u.userID).err # ""
TimerEmpty == Len(encryptedGroup.DisappearingMessagesTimer) = 0
MembersValid == \A i \in 1..Len(encryptedGroup.Members) : ~MemberFails(encryptedGroup.Members[i])
OthersValid ==
    /\ ~PropertyFails(encryptedGroup.Title)
    /\ TimerEmpty \/ ~PropertyFails(encryptedGroup.DisappearingMessagesTimer)
    /\ MembersValid

\* C12: once decryptGroup has returned, a description that fails to decrypt or
\* parse, every other field being valid, gave a group with the empty
\* Description and no error; a title that fails to decrypt or parse gave an
\* error and no group, whatever the other fields are.
C12_DescriptionSoftTitleFatal ==
    DecryptCalled =>
       /\ (PropertyFails(encryptedGroup.Description) /\ OthersValid)
          => decrypted.err = "" /\ decrypted.group # NoGroup /\ decrypted.group.Description = <<>>
       /\ PropertyFails(encryptedGroup.Title)
          => decrypted.err # "" /\ decrypted.group = NoGroup

\* C12 witness: a group with members and a timer whose description is junk
\* was decrypted, with a title that is not empty.
C12_Witness ==
    /\ DecryptCalled /\ encryptedGroup.Description = Junk /\ ~TimerEmpty
    /\ decrypted.err = "" /\ decrypted.group.Title = <<"a", "a">>
    /\ decrypted.group.Description = <<>> /\ Len(decrypted.group.Members) = 2

\* C13: once decryptGroup has returned, an empty timer field was not handed to
\* decryption and a group that came back has the duration 0; a non-empty
\* timer field that decrypts gave, in a group that came back, the duration of
\* the blob; a non-empty timer field that does not decrypt gave an error and
\* no group.
C13_TimerOnlyIfPresent ==
    DecryptCalled =>
       LET timer == encryptedGroup.DisappearingMessagesTimer
           blob == decryptGroupPropertyIntoBlob(DecryptParams, timer) IN
       /\ TimerEmpty
          => /\ "timer" \notin decrypted.attempted
             /\ decrypted.err = "" => decrypted.group.DisappearingMessagesDuration = 0
       /\ (~TimerEmpty /\ blob.err = "" /\ decrypted.err = "")
          => /\ "timer" \in decrypted.attempted
             /\ decrypted.group.DisappearingMessagesDuration =
                    GetDisappearingMessagesDuration(blob.blob)
       /\ (~TimerEmpty /\ blob.err # "")
          => decrypted.err # "" /\ decrypted.group = NoGroup
       /\ (TimerEmpty /\ ~PropertyFails(encryptedGroup.Title) /\ MembersValid)
          => decrypted.err = ""

\* C13 witness: a group whose only fault is a non-empty timer that does not
\* decrypt was refused with the timer's error.
C13_Witness ==
    /\ DecryptCalled /\ encryptedGroup.DisappearingMessagesTimer = Junk
    /\ ~PropertyFails(encryptedGroup.Title) /\ ~PropertyFails(encryptedGroup.Description)
    /\ MembersValid /\ Len(encryptedGroup.Members) > 0
    /\ decrypted.err = "error decrypting blob with padding" /\ "timer" \in decrypted.attempted

NotNil(member) == ~member.nil
NonNilMembers == SelectSeq(encryptedGroup.Members, NotNil)

\* C14: once decryptGroup has returned, a group that came back has one member
\* for each non-nil entry of the encrypted record, in the record's order, with
\* the user id and the revision of joining of that entry and a profile key
\* that was sealed for that same user; and if the user id or the profile key
\* of any entry does not decrypt, an error and no group came back.
C14_MembersAllOrNothing ==
    DecryptCalled =>
       /\ decrypted.err = ""
          => /\ Len(decrypted.group.Members) = Len(NonNilMembers)
             /\ \A i \in 1..Len(NonNilMembers) :
                  LET member == decrypted.group.Members[i] IN
                  /\ member.UserID = NonNilMembers[i].UserId[3]
                  /\ member.ProfileKey = NonNilMembers[i].ProfileKey[4]
                  /\ NonNilMembers[i].ProfileKey[3] = member.UserID
                  /\ member.JoinedAtRevision = NonNilMembers[i].JoinedAtRevision
       /\ (\E i \in 1..Len(encryptedGroup.Members) : MemberFails(encryptedGroup.Members[i]))
          => decrypted.err # "" /\ decrypted.group = NoGroup

\* C14 witness: a record of two members came back as those two members in
\* the record's order, each with its own profile key.
C14_Witness ==
    /\ DecryptCalled /\ decrypted.err = "" /\ Len(decrypted.group.Members) = 2
    /\ decrypted.group.Members[1].UserID = "u2" /\ decrypted.group.Members[1].ProfileKey = "pk2"
    /\ decrypted.group.Members[2].UserID = "u1" /\ decrypted.group.Members[2].ProfileKey = "pk1"

\* C14 witness of the other half: a record whose second member has a profile
\* key sealed for another user was refused.
C14_WitnessRefused ==
    /\ DecryptCalled /\ Len(encryptedGroup.Members) = 2
    /\ ~MemberFails(encryptedGroup.Members[1]) /\ MemberFails(encryptedGroup.Members[2])
    /\ ~PropertyFails(encryptedGroup.Title)
    /\ decrypted.err = "DecryptProfileKey"

\* C15 as claimed: once decryptGroup has returned a group, the Role of each of
\* its members is unknown (0), default (1) or administrator (2).
C15_RoleIsKnown ==
    (DecryptCalled /\ decrypted.err = "")
    => \A i \in 1..Len(decrypted.group.Members) : decrypted.group.Members[i].Role \in {0, 1, 2}

\* C15, the half the code keeps: a numeric role outside 0..2 does not make
\* decryptGroup fail, and comes back as the number it was.
C15_RoleKeepsNumber ==
    DecryptCalled =>
       /\ (OthersValid /\ \E i \in 1..Len(encryptedGroup.Members) :
                              encryptedGroup.Members[i].Role \notin {0, 1, 2})
          => decrypted.err = ""
       /\ decrypted.err = ""
          => \A i \in 1..Len(NonNilMembers) :
                decrypted.group.Members[i].Role = NonNilMembers[i].Role

\* ------------------------------------------------------------------- C16
\* The calls that hold a fetched group they are storing or have stored.
Storing ==
    {p \in Procs : /\ proc[p].kind = "retrieve"
                   /\ \/ proc[p].pc \in {"store_group", "store_time"}
                      \/ proc[p].pc = "done" /\ proc[p].ok /\ ~proc[p].cached}

\* C16: from the moment a RetrieveGroupByID miss holds the fetched group for
\* the cache, through its return, the profile key of every member of that
\* group is in the profile-key store; a call in which storing a profile key
\* failed returned an error and no group and left groups and lastFetched as
\* they were.
C16_ProfileKeysBeforeCache ==
    /\ \A p \in Storing :
         /\ proc[p].group # NoGroup
         /\ \A i \in 1..Len(proc[p].group.Members) :
              <<proc[p].group.Members[i].UserID, proc[p].group.Members[i].ProfileKey>>
                  \in ProfileKeyStore
    /\ \A p \in Done("retrieve") :
         proc[p].err = "profile_key_store"
         => /\ ~proc[p].ok /\ proc[p].group = NoGroup
            /\ GroupCache.groups = proc[p].pre.cache.groups
            /\ GroupCache.lastFetched = proc[p].pre.cache.lastFetched

\* C16 witness: a miss on a group of two members is about to write the group
\* to a cache that does not hold it, and both profile keys are stored.
C16_Witness ==
    \E p \in Storing :
        /\ proc[p].pc = "store_group" /\ Len(proc[p].group.Members) = 2
        /\ GroupCache.groups[proc[p].gid] = NoGroup
        /\ ProfileKeyStore = {<<"u1", "pk1">>, <<"u2", "pk2">>}

\* C16 witness of the other half: the second profile key could not be stored;
\* the first is in the store, the group is not in the cache.
C16_WitnessStoreFails ==
    \E p \in Done("retrieve") :
        /\ proc[p].err = "profile_key_store" /\ ProfileKeyStore = {<<"u1", "pk1">>}
        /\ GroupCache.groups[proc[p].gid] = NoGroup

\* ------------------------------------------------------------- C17, C18
\* A serialized master key in the form the encoder writes: digits, then the
\* padding the key length asks for, the unused bits of the last digit zero.
PadCount == (3 - (KeyLen % 3)) % 3
CanonicalChars == 4 * ((KeyLen + 2) \div 3)
IsCanonicalKey(k) ==
    /\ Len(k) = CanonicalChars
    /\ \A i \in 1..Len(k) : IF i > CanonicalChars - PadCount THEN k[i] = "=" ELSE k[i] \in Digits
    /\ PadCount = 1 => DigitValue(k[CanonicalChars - 1]) % 2 = 0
    /\ PadCount = 2 => DigitValue(k[CanonicalChars - 2]) % 4 = 0

\* C17: for a serialized master key k in the encoder's form,
\* masterKeyFromBytes(masterKeyToBytes(k)) is k, and for a raw master key b,
\* masterKeyToBytes(masterKeyFromBytes(b)) is b; neither call panics.
C17_CodecRoundTrip ==
    /\ (codecIn.fn = "masterKeyToBytes" /\ IsCanonicalKey(codecIn.arg) /\ Len(codecOut) >= 1)
       => /\ codecOut[1].panic = "" /\ Len(codecOut[1].value) = KeyLen
          /\ Len(codecOut) = 2 => codecOut[2].value = codecIn.arg
    /\ (codecIn.fn = "masterKeyFromBytes" /\ Len(codecOut) = 2)
       => codecOut[2].panic = "" /\ codecOut[2].value = codecIn.arg

\* C17 witness: a serialized key whose last digit carries bits of the key
\* went to bytes and back.
C17_Witness ==
    /\ codecIn.fn = "masterKeyToBytes" /\ codecIn.arg = <<"7", "5", "6", "=">>
    /\ Len(codecOut) = 2 /\ codecOut[1].value = <<15, 7>> /\ codecOut[2].value = codecIn.arg

\* C17 witness of the other direction: a raw key went to text and back.
C17_WitnessRaw ==
    /\ codecIn.fn = "masterKeyFromBytes" /\ codecIn.arg = <<9, 14>>
    /\ Len(codecOut) = 2 /\ codecOut[2].value = <<9, 14>>

\* What C18 calls malformed: not base64, or base64 of a byte sequence that
\* has not the length of a key.
IsMalformedKey(k) == DecodeString(k).err \/ Len(DecodeString(k).bytes) # KeyLen

\* C18 as claimed: masterKeyToBytes panics on every malformed serialized key.
C18_MalformedPanics ==
    (codecIn.fn = "masterKeyToBytes" /\ Len(codecOut) >= 1 /\ IsMalformedKey(codecIn.arg))
    => codecOut[1].panic # ""

\* C18, what the code keeps: input that is not base64 ends in the decode
\* panic, base64 of fewer bytes than a key ends in the panic of the
\* conversion, and base64 of more bytes comes back as its first KeyLen bytes.
C18_OnlyShortOrUndecodablePanics ==
    (codecIn.fn = "masterKeyToBytes" /\ Len(codecOut) >= 1)
    => LET d == DecodeString(codecIn.arg) IN
       /\ d.err => codecOut[1].panic = "decode"
       /\ (~d.err /\ Len(d.bytes) < KeyLen) => codecOut[1].panic = "conversion"
       /\ (~d.err /\ Len(d.bytes) >= KeyLen)
          => codecOut[1].panic = "" /\ codecOut[1].value = SubSeq(d.bytes, 1, KeyLen)

\* ------------------------------------------------------------- C19, C20
\* C19 as claimed: a RetrieveGroupByID(gid, rev) that returned a group returned
\* one whose Revision is at least rev, from the cache or from a fetch.
C19_ReturnedRevisionAtLeast ==
    \A p \in Done("retrieve") : proc[p].ok => proc[p].group.Revision >= proc[p].rev

\* C19, what the code keeps: a group returned from the cache has a Revision of
\* at least rev; a fetched group has the revision the server sent and is
\* cached with it, whatever rev was.
C19_RevisionCheckedOnHitOnly ==
    \A p \in Done("retrieve") :
        proc[p].ok =>
            IF proc[p].cached THEN proc[p].group.Revision >= proc[p].rev
            ELSE /\ proc[p].group.Revision = proc[p].served
                 /\ GroupCache.groups[proc[p].gid] = proc[p].group

\* C20 as claimed: no step replaces the cached group of an identifier with a
\* group of a lower revision.
C20_CachedRevisionNeverDecreases ==
    [][\A g \in Gids :
          (GroupCache.groups[g] # NoGroup /\ GroupCache'.groups[g] # NoGroup)
          => GroupCache'.groups[g].Revision >= GroupCache.groups[g].Revision]_vars

\* The server's revision of a group never decreases.
C20_ServerRevisionNeverDecreases ==
    [][\A g \in Gids : serverRev'[g] >= serverRev[g]]_vars

\* ------------------------------------------------------------------- C21
\* C21: a RetrieveGroupByID that was answered from the cache left the cache as
\* it was, and was begun less than an hour after the last fetch that was
\* stored for its group; between calls lastFetched of a group is the time of
\* that fetch, however many hits came after it, and an entry that is an hour
\* old or older is still in the cache.
C21_HitsDoNotExtendFreshness ==
    /\ \A p \in Done("retrieve") :
         proc[p].cached =>
            /\ GroupCache = proc[p].pre.cache
            /\ lastMiss[proc[p].gid].at # NoTime
            /\ proc[p].pre.now - lastMiss[proc[p].gid].at < FreshnessWindow
            /\ GroupCache.lastFetched[proc[p].gid] = lastMiss[proc[p].gid].at
    /\ AllIdle =>
         \A g \in Gids :
            /\ GroupCache.lastFetched[g] = lastMiss[g].at
            /\ lastMiss[g].at # NoTime => GroupCache.groups[g] # NoGroup

\* C21 witness: a hit later than the fetch that filled the entry; the entry
\* still carries the time of the fetch.
C21_Witness ==
    \E p \in Done("retrieve") :
        /\ proc[p].cached
        /\ proc[p].pre.now > lastMiss[proc[p].gid].at
        /\ GroupCache.lastFetched[proc[p].gid] = lastMiss[proc[p].gid].at
        /\ GroupCache = proc[p].pre.cache

\* C21 witness of staleness at lookup: an entry an hour old is in the cache
\* between calls, and the call that then asks for it fetches.
C21_WitnessStale ==
    \E p \in Done("retrieve") :
        /\ ~proc[p].cached /\ proc[p].ok
        /\ proc[p].pre.cache.groups[proc[p].gid].Revision >= proc[p].rev
        /\ proc[p].pre.now - proc[p].pre.cache.lastFetched[proc[p].gid] = FreshnessWindow

\* ------------------------------------------------------------------- C22
\* The errors of a credential fetch: transport, status, body, and the PNI
\* comparison, which is the identity check of fetchNewGroupCreds.
CredFetchFailures == CredFetchErrors \cup {"creds_pni"}

\* C22: cli.GroupCredentials changes only in the step of
\* GetAuthorizationForToday that takes the answer of its credential request,
\* and only to a bundle the server sent for that request whose PNI is the
\* session's own; a call whose credential fetch failed returned an error and
\* no GroupAuth after one request and left the cached bundle as it was; so
\* did, with no request, a call that found today's credential in the cache.
C22_BundleChangesOnlyOnGoodFetch ==
    /\ [][GroupCredentials' # GroupCredentials
          => \E p \in Procs :
                /\ proc[p].pc = "cred_wait" /\ proc[p].nCredReq = 1
                /\ GroupCredentials' \in ServerBundles(proc[p].req)
                /\ GroupCredentials'.PNI = OwnPNI
                /\ proc'[p].resp = GroupCredentials']_vars
    /\ [](\A p \in DoneAuth :
            /\ proc[p].err \in CredFetchFailures
               => /\ ~proc[p].ok /\ ~proc[p].auth
                  /\ proc[p].nCredReq = 1 /\ proc[p].nGroupReq = 0
                  /\ GroupCredentials = proc[p].pre.creds
            /\ proc[p].nCredReq = 0 => GroupCredentials = proc[p].pre.creds)

\* C22 witness: with a bundle cached that has run out, the request for a new
\* one failed with a status that is not 200, and the old bundle is still cached.
C22_Witness ==
    \E p \in DoneAuth :
        /\ proc[p].err = "creds_status" /\ proc[p].nCredReq = 1
        /\ ~proc[p].pre.creds.nil /\ proc[p].today \notin proc[p].pre.creds.Credentials
        /\ GroupCredentials = proc[p].pre.creds

\* C22 witness of the change: a fetched bundle took the place of a cached one.
C22_WitnessChanged ==
    \E p \in DoneAuth :
        /\ proc[p].ok /\ proc[p].nCredReq = 1 /\ ~proc[p].pre.creds.nil
        /\ GroupCredentials = proc[p].resp /\ GroupCredentials # proc[p].pre.creds

\* ------------------------------------------------------------------- C23
\* C23: an UpdateActiveCalls(g, c) that has returned left groups, lastFetched
\* and the credential bundle as they were, and activeCalls of every group but
\* g; a RetrieveGroupByID(g, rev) that has returned left activeCalls as it was,
\* and groups and lastFetched of every group but g.
C23_OperationsTouchOwnEntries ==
    /\ \A p \in Done("calls") :
         /\ GroupCache.groups = proc[p].pre.cache.groups
         /\ GroupCache.lastFetched = proc[p].pre.cache.lastFetched
         /\ GroupCredentials = proc[p].pre.creds
         /\ \A h \in Gids \ {proc[p].gid} :
              GroupCache.activeCalls[h] = proc[p].pre.cache.activeCalls[h]
    /\ \A p \in Done("retrieve") :
         /\ GroupCache.activeCalls = proc[p].pre.cache.activeCalls
         /\ \A h \in Gids \ {proc[p].gid} :
              /\ GroupCache.groups[h] = proc[p].pre.cache.groups[h]
              /\ GroupCache.lastFetched[h] = proc[p].pre.cache.lastFetched[h]

\* C23 witness: a RetrieveGroupByID stored a group while the other group was
\* cached and both groups had a call recorded.
C23_Witness ==
    \E p \in Done("retrieve") :
        /\ proc[p].ok /\ ~proc[p].cached
        /\ GroupCache.groups[proc[p].gid] # proc[p].pre.cache.groups[proc[p].gid]
        /\ \A h \in Gids \ {proc[p].gid} : GroupCache.groups[h] # NoGroup
        /\ \A h \in Gids : GroupCache.activeCalls[h] # NoCallID

\* C23 witness of the other operation: an UpdateActiveCalls recorded a call
\* for one group while both groups were cached, the credential bundle was
\* cached and the other group had a call recorded.
C23_WitnessCalls ==
    \E p \in Done("calls") :
        /\ proc[p].isActive /\ ~GroupCredentials.nil
        /\ \A h \in Gids : GroupCache.groups[h] # NoGroup
        /\ \A h \in Gids \ {proc[p].gid} : GroupCache.activeCalls[h] # NoCallID

\* ------------------------------------------------------------------- C24
\* C24: with a group store filled by StoreMasterKey alone, the group cached
\* under an identifier carries that identifier and the master key stored for
\* it; and whenever no call stands between its two writes, groups and
\* lastFetched have entries for the same identifiers.
C24_FiledUnderOwnIdentifier ==
    /\ \A g \in Gids :
         GroupCache.groups[g] # NoGroup
         => /\ GroupCache.groups[g].GroupIdentifier = g
            /\ groupIdentifierFromMasterKey(GroupCache.groups[g].groupMasterKey) = g
    /\ (\A p \in Procs : proc[p].pc # "store_time")
       => {g \in Gids : GroupCache.groups[g] # NoGroup}
              = {g \in Gids : GroupCache.lastFetched[g] # NoTime}

\* C24 witness: a fetch has returned and both groups are cached, each under
\* the identifier it carries, each with the time of its fetch.
C24_Witness ==
    \E p \in Done("retrieve") :
        /\ proc[p].ok /\ ~proc[p].cached
        /\ \A g \in Gids : /\ GroupCache.groups[g].GroupIdentifier = g
                           /\ GroupCache.lastFetched[g] # NoTime
        /\ GroupCache.groups["g1"].groupMasterKey # GroupCache.groups["g2"].groupMasterKey

\* ------------------------------------------------------------------- C25
\* C25 as claimed: the native handle of a wrapper on which callers called
\* Destroy at most once is destroyed at most once, by that call or by the
\* finalizer and not by both; and a wrapper that was collected without any
\* call of Destroy by a caller had its native handle destroyed exactly once,
\* by its finalizer.
C25_ReleasedOnce ==
    \A w \in Wrappers :
        LET h == handle[w] IN
        /\ h.explicit <= 1 => h.released <= 1 /\ h.explicit + h.finalized <= 1
        /\ (h.state = "collected" /\ h.explicit = 0) => h.released = 1 /\ h.finalized = 1

\* C25 as amended: the same, the second part for wrappers on which
\* CancelFinalizer was not called on its own; a sender certificate on which it
\* was called and Destroy was not is collected with its native handle never
\* destroyed.
C25_ReleasedOnceUnlessCancelled ==
    \A w \in Wrappers :
        LET h == handle[w] IN
        /\ h.explicit <= 1 => h.released <= 1 /\ h.explicit + h.finalized <= 1
        /\ (h.state = "collected" /\ h.explicit = 0 /\ ~h.cancelled)
           => h.released = 1 /\ h.finalized = 1
        /\ (h.state = "collected" /\ h.explicit = 0 /\ h.cancelled)
           => h.released = 0 /\ h.finalized = 0

\* C25 witness: a fingerprint was destroyed by its holder and then collected,
\* a second one was never destroyed by a holder and was collected after its
\* finalizer ran; each native handle was destroyed once.
C25_Witness ==
    /\ handle["f1"].state = "collected" /\ handle["f1"].explicit = 1
    /\ handle["f1"].released = 1 /\ handle["f1"].finalized = 0
    /\ handle["f2"].state = "collected" /\ handle["f2"].explicit = 0
    /\ handle["f2"].released = 1 /\ handle["f2"].finalized = 1

\* C25, outside the claim's case: Destroy called twice by holders destroys
\* the native handle twice.
C25_WitnessDestroyedTwice ==
    \E w \in Wrappers : handle[w].explicit = 2 /\ handle[w].released = 2

=============================================================================
